---- MODULE Spec2Model ----
(***************************************************************************)
(* AudioMind: the content store (MemStorage), the upload -> transcribe ->  *)
(* summarize pipeline (processAudioFile), the AI gateway wrappers and the  *)
(* HTTP route handlers of server/routes.ts.                                *)
(*                                                                         *)
(* JavaScript strings that the code inspects (substring tests, prefixes)   *)
(* are sequences of one-character strings.  null and undefined are the     *)
(* one-element tuples Null and Undefined, a JavaScript number n is         *)
(* Num(n).  The server is one event loop: every action below is the        *)
(* synchronous stretch of a handler between two suspension points.         *)
(***************************************************************************)
EXTENDS Integers, Sequences, FiniteSets, Bags, TLC

\* ------------------------------------------------------------------ bounds
MaxUploads == 2
MaxSummaryReqs == 1
MaxClock == 1
MaxHighlights == 2
MaxKeyPointReqs == 1

\* ------------------------------------------------------- JavaScript values
Null == <<"NULL">>
Undefined == <<"UNDEFINED">>
Num(n) == <<"number", n>>

\* JavaScript truthiness of a string, null, undefined or array length test.
Truthy(v) == v # Undefined /\ v # Null /\ v # <<>>

\* String.prototype.includes on character sequences.
Includes(s, sub) ==
    \E i \in 0..(Len(s) - Len(sub)) : SubSeq(s, i + 1, i + Len(sub)) = sub

\* String.prototype.toLowerCase
UpperCase ==
    <<"A", "B", "C", "D", "E", "F", "G", "H", "I", "J", "K", "L", "M",
      "N", "O", "P", "Q", "R", "S", "T", "U", "V", "W", "X", "Y", "Z">>
LowerCase ==
    <<"a", "b", "c", "d", "e", "f", "g", "h", "i", "j", "k", "l", "m",
      "n", "o", "p", "q", "r", "s", "t", "u", "v", "w", "x", "y", "z">>
ToLowerChar(c) ==
    IF \E i \in 1..Len(UpperCase) : UpperCase[i] = c
    THEN LowerCase[CHOOSE i \in 1..Len(UpperCase) : UpperCase[i] = c]
    ELSE c
ToLowerCase(s) == [i \in 1..Len(s) |-> ToLowerChar(s[i])]

\* NaN, the value parseInt gives a string that starts with no digit
NaN == <<"NaN">>

Digits == <<"0", "1", "2", "3", "4", "5", "6", "7", "8", "9">>
IsDigit(c) == \E d \in 1..Len(Digits) : Digits[d] = c
DigitValue(c) == (CHOOSE d \in 1..Len(Digits) : Digits[d] = c) - 1

\* String(n) for a natural number n
RECURSIVE NatToString(_)
NatToString(n) ==
    IF n < 10 THEN <<Digits[n + 1]>>
    ELSE NatToString(n \div 10) \o <<Digits[(n % 10) + 1]>>

\* `${v}` for a number or NaN
NumberToString(v) == IF v = NaN THEN <<"N", "a", "N">> ELSE NatToString(v[2])

\* the value of the longest prefix of s made of digits, read after acc
RECURSIVE DigitPrefixValue(_, _)
DigitPrefixValue(s, acc) ==
    IF s = <<>> \/ ~IsDigit(Head(s)) THEN acc
    ELSE DigitPrefixValue(Tail(s), 10 * acc + DigitValue(Head(s)))

\* parseInt(s, 10) of a string without sign or leading blanks
parseInt(s) ==
    IF s = <<>> \/ ~IsDigit(Head(s)) THEN NaN ELSE Num(DigitPrefixValue(s, 0))

\* s.split(sep) for a one-character separator
RECURSIVE Split(_, _)
Split(s, sep) ==
    IF \A i \in 1..Len(s) : s[i] # sep THEN <<s>>
    ELSE LET k == CHOOSE i \in 1..Len(s) : s[i] = sep /\ \A j \in 1..(i - 1) : s[j] # sep
         IN <<SubSeq(s, 1, k - 1)>> \o Split(SubSeq(s, k + 1, Len(s)), sep)

\* s.replace(/word/, ""): the first occurrence of word is removed
RemoveFirst(s, word) ==
    IF ~Includes(s, word) THEN s
    ELSE LET k == CHOOSE i \in 0..(Len(s) - Len(word)) :
                     /\ SubSeq(s, i + 1, i + Len(word)) = word
                     /\ \A j \in 0..(i - 1) : SubSeq(s, j + 1, j + Len(word)) # word
         IN SubSeq(s, 1, k) \o SubSeq(s, k + Len(word) + 1, Len(s))

\* Object spread { ...content, ...updates }: keys of updates win.
Merge(content, updates) ==
    [f \in (DOMAIN content) \cup (DOMAIN updates) |->
        IF f \in DOMAIN updates THEN updates[f] ELSE content[f]]

\* ----------------------------------------------------------- string data
WrapPrefix ==
    <<"F", "a", "i", "l", "e", "d", " ", "t", "o", " ", "t", "r", "a", "n", "s", "c", "r", "i", "b", "e", " ", "a", "u", "d", "i", "o", ":", " ">>
ErrorPrefix ==
    <<"E", "r", "r", "o", "r", ":", " ">>
TranscriptionFailedMessage ==
    <<"T", "r", "a", "n", "s", "c", "r", "i", "p", "t", "i", "o", "n", " ", "f", "a", "i", "l", "e", "d">>
QuotaExceededMessage ==
    <<"O", "p", "e", "n", "A", "I", " ", "q", "u", "o", "t", "a", " ", "e", "x", "c", "e", "e", "d", "e", "d", ".", " ", "P", "l", "e", "a", "s", "e", " ", "a", "d", "d", " ", "c", "r", "e", "d", "i", "t", "s", " ", "t", "o", " ", "y", "o", "u", "r", " ", "O", "p", "e", "n", "A", "I", " ", "a", "c", "c", "o", "u", "n", "t", ".">>
QuotaNeedle ==
    <<"q", "u", "o", "t", "a">>
RateLimitNeedle ==
    <<"4", "2", "9">>
SummaryPlaceholder ==
    <<"S", "u", "m", "m", "a", "r", "y", " ", "c", "o", "u", "l", "d", " ", "n", "o", "t", " ", "b", "e", " ", "g", "e", "n", "e", "r", "a", "t", "e", "d">>

\* Messages of the errors the speech-to-text provider raises.
MsgInsufficientQuota ==
    <<"Y", "o", "u", " ", "e", "x", "c", "e", "e", "d", "e", "d", " ", "y", "o", "u", "r", " ", "c", "u", "r", "r", "e", "n", "t", " ", "q", "u", "o", "t", "a">>
MsgRateLimit ==
    <<"4", "2", "9", " ", "T", "o", "o", " ", "M", "a", "n", "y", " ", "R", "e", "q", "u", "e", "s", "t", "s">>
MsgConnection ==
    <<"C", "o", "n", "n", "e", "c", "t", "i", "o", "n", " ", "e", "r", "r", "o", "r", ".">>
MsgCapitalQuota ==
    <<"Q", "u", "o", "t", "a", " ", "4", "2", " ", "9">>

TitleLecture ==
    <<"L", "e", "c", "t", "u", "r", "e", " ", "1">>
TranscriptHello ==
    <<"h", "e", "l", "l", "o">>
SummaryText ==
    <<"A", " ", "t", "a", "l", "k">>

\* ------------------------------------------------------------ environment
\* What the clients and the providers may send.
MOCK_USER_ID == "user-123"

FileNameMp3 ==
    <<"t", "a", "l", "k", ".", "m", "p", "3">>
FileNameM4a ==
    <<"T", "a", "l", "k", ".", "M", "4", "A">>
FileNameOgg ==
    <<"t", "a", "l", "k", ".", "o", "g", "g">>
FileNameNoExt ==
    <<"c", "l", "i", "p">>

Mp3File ==
    [originalname |-> FileNameMp3, path |-> "uploads/a1", size |-> 1000,
     mimetype |-> "audio/mpeg"]
OggFile ==
    [originalname |-> FileNameOgg, path |-> "uploads/a2", size |-> 1000,
     mimetype |-> "audio/ogg"]
\* req.file when the multipart body has no "audioFile" part
NoFile == [missing |-> TRUE]
\* the multipart "audioFile" part: absent, or a file
UploadFiles == {NoFile, Mp3File, OggFile}
\* the "title" form field: absent, empty, or a title
UploadTitles == {Undefined, <<>>, TitleLecture}
\* the "source" form field
UploadSources == {Undefined}
\* the "q" query parameter of a search: absent, empty, or a query
QueryLecture ==
    <<"l", "e", "c", "t", "u", "r", "e">>
SearchQueries == {Undefined, <<>>, QueryLecture}
\* the PATCH body's progress member: absent or a number of seconds
ProgressBodies == {Undefined, Num(7)}

\* What the speech-to-text call does: returns a text or raises an error.
ProviderTranscriptions ==
    {[ok |-> TRUE, text |-> txt] : txt \in {<<>>, TranscriptHello}}
    \cup {[ok |-> FALSE, message |-> m] :
            m \in {MsgInsufficientQuota, MsgRateLimit, MsgCapitalQuota}}

\* JSON values in a chat-completion message.
JsonString(s) == [type |-> "string", value |-> s]
JsonArray(a) == [type |-> "array", value |-> a]
NotJson == [type |-> "malformed"]
JsonNull == [type |-> "null"]
JsonUndefined == [type |-> "undefined"]
JsonObject(members) == [type |-> "object", members |-> members]
EmptyObject == JsonObject([x \in {} |-> Null])

\* What the chat-completion call does: raises an error, or returns a message
\* whose content is null, is not JSON, or is a JSON object.
ProviderCompletions ==
    { [ok |-> FALSE, message |-> MsgConnection],
      [ok |-> TRUE, content |-> JsonNull],
      [ok |-> TRUE, content |-> NotJson],
      [ok |-> TRUE,
       content |-> JsonObject([summary |-> JsonString(SummaryText),
                               keywords |-> JsonArray(<<"talk">>)])] }

\* ------------------------------------------------------------------ state
VARIABLES
    audioContent,   \* MemStorage.audioContent: id -> AudioContent
    nextId,         \* the ids randomUUID has handed out are 1..nextId-1
    now,            \* the clock read by new Date()
    uploadResp,     \* id -> the HTTP response of the upload that created id
    pipeline,       \* id -> position and locals of processAudioFile(id, ..)
    summaryReqs,    \* bag of summary requests suspended in generateSummary
    resp,           \* the HTTP response the last step sent (NoResp: none)
    fileReq,        \* the GET /api/audio/:id request a client has sent
    highlights,     \* MemStorage.highlights: id -> Highlight
    nextHighlightId,    \* the highlight ids handed out are 1..nextHighlightId-1
    transcriptSegments, \* MemStorage.transcriptSegments: id -> TranscriptSegment
    nextSegmentId,      \* the segment ids handed out are 1..nextSegmentId-1
    keyPointReqs,   \* bag of key-points requests suspended in extractKeyPoints
    ret             \* the last call of a MemStorage or gateway method: arguments and result

vars == <<audioContent, nextId, now, uploadResp, pipeline, summaryReqs, resp, fileReq,
          highlights, nextHighlightId, transcriptSegments, nextSegmentId, keyPointReqs, ret>>

\* what the steps of the upload, pipeline, summary, progress and file routes
\* leave alone
others == <<highlights, nextHighlightId, transcriptSegments, nextSegmentId, keyPointReqs, ret>>

\* the body { message: m } of an error or confirmation response
Message(m) == [message |-> m]

\* ids a request may name: the allocated ones and ids no record has
RequestIds == 0..MaxUploads

\* A URL path is a sequence of segments: a literal, or the id of a record.
Lit(s) == <<"lit", s>>
IdSeg(id) == <<"id", id>>
\* the segment ":id" of a route pattern
Param == <<"param">>

\* req.params.id as a key of the store: no record's id is a word like "search"
ParamId(seg) == IF seg[1] = "id" THEN seg[2] ELSE 0

ContentPath(id) == <<Lit("api"), Lit("audio-content"), IdSeg(id)>>
ContentSubPath(id, leaf) == <<Lit("api"), Lit("audio-content"), IdSeg(id), Lit(leaf)>>
UploadPath == <<Lit("api"), Lit("audio-content"), Lit("upload")>>
SearchPath == <<Lit("api"), Lit("audio-content"), Lit("search")>>

Request(method, path, params) ==
    [method |-> method, path |-> path, params |-> params]

\* the response a handler sends: the request, the handler (its route), status, body
Response(req, route, status, body) ==
    [req |-> req, route |-> route, status |-> status, body |-> body]

NoResp == Response(Request("none", <<>>, Message("none")), "none", 0, Message("none"))

\* no method call recorded
NoCall == [op |-> "none"]

\* ------------------------------------------------------------ route table
\* app.get / app.post / ... in the order registerRoutes registers them
Routes ==
    << [method |-> "GET", pattern |-> <<Lit("api"), Lit("audio-content")>>,
        name |-> "GET /api/audio-content"],
       [method |-> "GET", pattern |-> <<Lit("api"), Lit("audio-content"), Param>>,
        name |-> "GET /api/audio-content/:id"],
       [method |-> "GET", pattern |-> <<Lit("api"), Lit("audio"), Param>>,
        name |-> "GET /api/audio/:id"],
       [method |-> "POST", pattern |-> <<Lit("api"), Lit("audio-content"), Lit("upload")>>,
        name |-> "POST /api/audio-content/upload"],
       [method |-> "GET", pattern |-> <<Lit("api"), Lit("audio-content"), Lit("search")>>,
        name |-> "GET /api/audio-content/search"],
       [method |-> "PATCH",
        pattern |-> <<Lit("api"), Lit("audio-content"), Param, Lit("progress")>>,
        name |-> "PATCH /api/audio-content/:id/progress"],
       [method |-> "GET",
        pattern |-> <<Lit("api"), Lit("audio-content"), Param, Lit("transcript")>>,
        name |-> "GET /api/audio-content/:id/transcript"],
       [method |-> "GET",
        pattern |-> <<Lit("api"), Lit("audio-content"), Param, Lit("highlights")>>,
        name |-> "GET /api/audio-content/:id/highlights"],
       [method |-> "POST", pattern |-> <<Lit("api"), Lit("highlights")>>,
        name |-> "POST /api/highlights"],
       [method |-> "DELETE", pattern |-> <<Lit("api"), Lit("highlights"), Param>>,
        name |-> "DELETE /api/highlights/:id"],
       [method |-> "POST",
        pattern |-> <<Lit("api"), Lit("audio-content"), Param, Lit("summary")>>,
        name |-> "POST /api/audio-content/:id/summary"],
       [method |-> "POST",
        pattern |-> <<Lit("api"), Lit("audio-content"), Param, Lit("key-points")>>,
        name |-> "POST /api/audio-content/:id/key-points"] >>

\* a pattern matches a path of the same length, ":id" matching any one segment
PathMatches(pattern, path) ==
    /\ Len(pattern) = Len(path)
    /\ \A i \in 1..Len(pattern) : pattern[i] = Param \/ pattern[i] = path[i]

\* Express runs the first registered route that matches; "none" when none does
Dispatch(method, path) ==
    LET matching == {i \in 1..Len(Routes) :
                        Routes[i].method = method /\ PathMatches(Routes[i].pattern, path)}
    IN IF matching = {} THEN "none"
       ELSE Routes[CHOOSE i \in matching : \A j \in matching : i <= j].name

\* ------------------------------------------------------------ MemStorage
\* what Map.get gives for an absent key, as a record
NoRecord == [undefined |-> TRUE]

getAudioContent(id) ==
    IF id \in DOMAIN audioContent THEN audioContent[id] ELSE NoRecord

\* createAudioContent with a status that is not one of the four
createAudioContentUploaded(insert, id, t) ==
    Merge(insert,
          [id |-> id,
           transcriptionStatus |-> "uploaded",
           transcriptionText |-> Null,
           aiSummary |-> Null,
           keywords |-> <<>>,
           progress |-> Num(0),
           createdAt |-> t,
           lastAccessedAt |-> t])

\* an id generator that hands out the previous id again
randomUUIDRepeats == IF nextId > 1 THEN nextId - 1 ELSE nextId

\* const id = randomUUID(): an id no record has had
randomUUID == nextId

createAudioContent(insert, id, t) ==
    Merge(insert,
          [id |-> id,
           transcriptionStatus |-> "pending",
           transcriptionText |-> Null,
           aiSummary |-> Null,
           keywords |-> <<>>,
           progress |-> Num(0),
           createdAt |-> t,
           lastAccessedAt |-> t])

\* the record updateAudioContent returns (undefined when id is absent)
updateAudioContent(id, updates) ==
    IF id \in DOMAIN audioContent
    THEN Merge(audioContent[id], updates)
    ELSE NoRecord

\* an update merged into the record as the upload created it
StoreAfterUpdateFromCreated(id, updates) ==
    IF id \in DOMAIN audioContent
    THEN [audioContent EXCEPT ![id] = Merge(uploadResp[id].body, updates)]
    ELSE audioContent

\* the map after updateAudioContent(id, updates)
StoreAfterUpdate(id, updates) ==
    IF id \in DOMAIN audioContent
    THEN [audioContent EXCEPT ![id] = Merge(@, updates)]
    ELSE audioContent

\* Array.from(this.audioContent.values()): the records in insertion order, which
\* is the order of creation (Map.set on an existing key keeps its place)
RECURSIVE ValuesUpTo(_)
ValuesUpTo(n) ==
    IF n = 0 THEN <<>>
    ELSE IF n \in DOMAIN audioContent
         THEN Append(ValuesUpTo(n - 1), audioContent[n])
         ELSE ValuesUpTo(n - 1)
AudioContentValues == ValuesUpTo(nextId - 1)

\* a match that does not lower the field
FieldMatchesCaseSensitive(field, lowerQuery) ==
    field # Null /\ Includes(field, lowerQuery)

\* field?.toLowerCase().includes(lowerQuery): false for null
FieldMatches(field, lowerQuery) ==
    field # Null /\ Includes(ToLowerCase(field), lowerQuery)

searchAudioContent(userId, query) ==
    LET lowerQuery == ToLowerCase(query)
        Keep(content) ==
            /\ content.userId = userId
            /\ \/ FieldMatches(content.title, lowerQuery)
               \/ FieldMatches(content.source, lowerQuery)
               \/ FieldMatches(content.transcriptionText, lowerQuery)
               \/ FieldMatches(content.aiSummary, lowerQuery)
    IN SelectSeq(AudioContentValues, Keep)

\* Map.delete(id) on the content map: the boolean it returns
deleteAudioContent(id) == id \in DOMAIN audioContent

\* a map without key id
Without(map, id) == [k \in DOMAIN map \ {id} |-> map[k]]

\* Array.prototype.sort, which is stable: x goes behind every element whose
\* key is not greater than its own
RECURSIVE InsertByKey(_, _)
InsertByKey(sorted, x) ==
    IF sorted = <<>> THEN <<x>>
    ELSE IF x.key < Head(sorted).key THEN <<x>> \o sorted
    ELSE <<Head(sorted)>> \o InsertByKey(Tail(sorted), x)

RECURSIVE StableSort(_)
StableSort(pairs) ==
    IF pairs = <<>> THEN <<>>
    ELSE InsertByKey(StableSort(SubSeq(pairs, 1, Len(pairs) - 1)), pairs[Len(pairs)])

\* the values of sorted pairs
Values(pairs) == [i \in 1..Len(pairs) |-> pairs[i].value]

\* new Date(d || 0).getTime()
GetTime(d) == IF d \in Int THEN d ELSE 0

\* a listing sorted with (a, b) => time(a) - time(b)
getAudioContentByUserAscending(userId) ==
    LET OfUser(content) == content.userId = userId
        kept == SelectSeq(AudioContentValues, OfUser)
    IN Values(StableSort([i \in 1..Len(kept) |->
                             [key |-> GetTime(kept[i].lastAccessedAt),
                              value |-> kept[i]]]))

\* filter by userId, then sort with (a, b) => time(b) - time(a): descending
getAudioContentByUser(userId) ==
    LET OfUser(content) == content.userId = userId
        kept == SelectSeq(AudioContentValues, OfUser)
    IN Values(StableSort([i \in 1..Len(kept) |->
                             [key |-> 0 - GetTime(kept[i].lastAccessedAt),
                              value |-> kept[i]]]))

\* ---- highlights
Yellow == <<"y", "e", "l", "l", "o", "w">>

getHighlight(id) == IF id \in DOMAIN highlights THEN highlights[id] ELSE NoRecord

createHighlight(highlight, id, t) ==
    Merge(highlight,
          [id |-> id,
           color |-> IF Truthy(highlight.color) THEN highlight.color ELSE Yellow,
           note |-> IF Truthy(highlight.note) THEN highlight.note ELSE Null,
           createdAt |-> t])

\* the record updateHighlight returns (undefined when id is absent)
updateHighlight(id, updates) ==
    IF id \in DOMAIN highlights
    THEN Merge(highlights[id], updates)
    ELSE NoRecord

\* an updateHighlight that stores the updates under an absent id
HighlightsAfterUpdateUpsert(id, updates) ==
    IF id \in DOMAIN highlights
    THEN [highlights EXCEPT ![id] = Merge(@, updates)]
    ELSE (id :> updates) @@ highlights

\* the map after updateHighlight(id, updates)
HighlightsAfterUpdate(id, updates) ==
    IF id \in DOMAIN highlights
    THEN [highlights EXCEPT ![id] = Merge(@, updates)]
    ELSE highlights

\* a deleteHighlight that reports success whatever the id
deleteHighlightAlwaysTrue(id) == TRUE

\* Map.delete(id) on the highlight map: the boolean it returns
deleteHighlight(id) == id \in DOMAIN highlights

\* Array.from(this.highlights.values()): insertion order
RECURSIVE HighlightsUpTo(_)
HighlightsUpTo(n) ==
    IF n = 0 THEN <<>>
    ELSE IF n \in DOMAIN highlights
         THEN Append(HighlightsUpTo(n - 1), highlights[n])
         ELSE HighlightsUpTo(n - 1)
HighlightValues == HighlightsUpTo(nextHighlightId - 1)

\* a listing in insertion order
getHighlightsByAudioContentUnsorted(audioContentId) ==
    LET OfContent(highlight) == highlight.audioContentId = audioContentId
    IN SelectSeq(HighlightValues, OfContent)

\* filter by audioContentId, then sort with (a, b) => a.startTime - b.startTime
getHighlightsByAudioContent(audioContentId) ==
    LET OfContent(highlight) == highlight.audioContentId = audioContentId
        kept == SelectSeq(HighlightValues, OfContent)
    IN Values(StableSort([i \in 1..Len(kept) |->
                             [key |-> kept[i].startTime[2], value |-> kept[i]]]))

\* { ...segment, id, confidence: segment.confidence || null }
createTranscriptSegment(segment, id) ==
    Merge(segment,
          [id |-> id,
           confidence |-> IF segment.confidence \in {Undefined, Null, Num(0)}
                          THEN Null ELSE segment.confidence])

\* Array.from(this.transcriptSegments.values()): insertion order
RECURSIVE SegmentsUpTo(_)
SegmentsUpTo(n) ==
    IF n = 0 THEN <<>>
    ELSE IF n \in DOMAIN transcriptSegments
         THEN Append(SegmentsUpTo(n - 1), transcriptSegments[n])
         ELSE SegmentsUpTo(n - 1)
TranscriptSegmentValues == SegmentsUpTo(nextSegmentId - 1)

\* filter by audioContentId, then sort with (a, b) => a.sequenceNumber - b.sequenceNumber
getTranscriptSegments(audioContentId) ==
    LET OfContent(segment) == segment.audioContentId = audioContentId
        kept == SelectSeq(TranscriptSegmentValues, OfContent)
    IN Values(StableSort([i \in 1..Len(kept) |->
                             [key |-> kept[i].sequenceNumber[2], value |-> kept[i]]]))

\* the segment map after deleteTranscriptSegments(audioContentId)
deleteTranscriptSegments(audioContentId) ==
    [k \in {j \in DOMAIN transcriptSegments :
                transcriptSegments[j].audioContentId # audioContentId}
        |-> transcriptSegments[k]]

\* ------------------------------------------------------------ AI gateway
Thrown(message) == [threw |-> TRUE, message |-> message]

transcribeAudio(outcome) ==
    IF outcome.ok
    THEN [threw |-> FALSE, text |-> outcome.text, duration |-> Undefined]
    ELSE Thrown(WrapPrefix \o outcome.message)

SummaryWrapPrefix ==
    <<"F", "a", "i", "l", "e", "d", " ", "t", "o", " ", "g", "e", "n", "e", "r", "a", "t", "e", " ", "s", "u", "m", "m", "a", "r", "y", ":", " ">>
SyntaxErrorMessage ==
    <<"U", "n", "e", "x", "p", "e", "c", "t", "e", "d", " ", "t", "o", "k", "e", "n">>

\* JSON.parse(content || "{}")
JsonParse(content) ==
    IF content = JsonNull THEN [threw |-> FALSE, value |-> EmptyObject]
    ELSE IF content.type = "malformed" THEN Thrown(SyntaxErrorMessage)
    ELSE [threw |-> FALSE, value |-> content]

\* result.<name> of a parsed JSON value
Member(result, name) ==
    IF result.type = "object" /\ name \in DOMAIN result.members
    THEN result.members[name]
    ELSE JsonUndefined

JsonTruthy(v) ==
    /\ v.type \notin {"undefined", "null"}
    /\ v.type = "string" => v.value # <<>>

\* the content "null": JSON.parse gives null, and a property read of null
\* raises a TypeError
JsonLiteralNull == [type |-> "literal-null"]
TypeErrorMessage ==
    <<"C", "a", "n", "n", "o", "t", " ", "r", "e", "a", "d", " ", "p", "r", "o", "p", "e", "r", "t", "i", "e", "s", " ", "o", "f", " ", "n", "u", "l", "l">>

generateSummary(outcome) ==
    IF ~outcome.ok THEN Thrown(SummaryWrapPrefix \o outcome.message)
    ELSE LET parsed == JsonParse(outcome.content) IN
         IF parsed.threw THEN Thrown(SummaryWrapPrefix \o parsed.message)
         ELSE IF parsed.value = JsonLiteralNull
         THEN Thrown(SummaryWrapPrefix \o TypeErrorMessage)
         ELSE LET summary == Member(parsed.value, "summary")
                  keywords == Member(parsed.value, "keywords")
              IN [threw |-> FALSE,
                  summary |-> IF JsonTruthy(summary) THEN summary.value
                              ELSE SummaryPlaceholder,
                  keywords |-> IF keywords.type = "array"
                               THEN keywords.value ELSE <<>>]

KeyPointsWrapPrefix ==
    <<"F", "a", "i", "l", "e", "d", " ", "t", "o", " ", "e", "x", "t", "r", "a", "c", "t", " ", "k", "e", "y", " ", "p", "o", "i", "n", "t", "s", ":", " ">>

extractKeyPoints(outcome) ==
    IF ~outcome.ok THEN Thrown(KeyPointsWrapPrefix \o outcome.message)
    ELSE LET parsed == JsonParse(outcome.content) IN
         IF parsed.threw THEN Thrown(KeyPointsWrapPrefix \o parsed.message)
         ELSE IF parsed.value = JsonLiteralNull
         THEN Thrown(KeyPointsWrapPrefix \o TypeErrorMessage)
         ELSE LET keyPoints == Member(parsed.value, "keyPoints")
              IN [threw |-> FALSE,
                  keyPoints |-> IF keyPoints.type = "array"
                                THEN keyPoints.value ELSE <<>>]

\* ------------------------------------------------ POST /api/audio-content/upload
allowedMimes == {"audio/mpeg", "audio/wav", "audio/m4a", "audio/flac", "audio/mp3"}

\* a filter that lets every audio/* type through
fileFilterAnyAudio(file) == file.mimetype \in allowedMimes \cup {"audio/ogg"}

\* multer's fileFilter: TRUE when the file is passed on to the handler
fileFilter(file) == file.mimetype \in allowedMimes

\* the status the error middleware gives an error raised by multer
UploadErrorStatus == 400

\* the upload route without its title check
UploadRejectionNoTitleCheck(file, title) ==
    IF file # NoFile /\ ~fileFilter(file) THEN "filter"
    ELSE IF file = NoFile THEN "nofile"
    ELSE "none"

\* Which check of the upload route turns the request down ("none": accepted).
UploadRejection(file, title) ==
    IF file # NoFile /\ ~fileFilter(file) THEN "filter"
    ELSE IF file = NoFile THEN "nofile"
    ELSE IF ~Truthy(title) THEN "notitle"
    ELSE "none"

UploadInsert(file, title, source) ==
    [userId |-> MOCK_USER_ID,
     title |-> title,
     source |-> IF Truthy(source) THEN source ELSE Null,
     fileName |-> file.originalname,
     filePath |-> file.path,
     fileSize |-> file.size,
     mimeType |-> file.mimetype]

PipelineIdle ==
    [pc |-> "idle", transcription |-> [state |-> "none"], summary |-> [state |-> "none"],
     runs |-> 0, calls |-> [transcribeAudio |-> 0, generateSummary |-> 0]]

UploadRequest(file, title, source) ==
    Request("POST", UploadPath, [file |-> file, title |-> title, source |-> source])

UploadRoute == "POST /api/audio-content/upload"

\* fileFilter refuses the file: multer passes the error on, the handler never runs
UploadFilterRejects(file, title, source) ==
    /\ Dispatch("POST", UploadPath) = UploadRoute
    /\ UploadRejection(file, title) = "filter"
    /\ resp' = Response(UploadRequest(file, title, source), UploadRoute, UploadErrorStatus,
                        Message("Invalid file type. Only audio files are allowed."))
    /\ UNCHANGED <<audioContent, nextId, now, uploadResp, pipeline, summaryReqs, fileReq, others>>

UploadNoFile(file, title, source) ==
    /\ Dispatch("POST", UploadPath) = UploadRoute
    /\ UploadRejection(file, title) = "nofile"
    /\ resp' = Response(UploadRequest(file, title, source), UploadRoute, 400,
                        Message("No audio file provided"))
    /\ UNCHANGED <<audioContent, nextId, now, uploadResp, pipeline, summaryReqs, fileReq, others>>

UploadNoTitle(file, title, source) ==
    /\ Dispatch("POST", UploadPath) = UploadRoute
    /\ UploadRejection(file, title) = "notitle"
    /\ resp' = Response(UploadRequest(file, title, source), UploadRoute, 400,
                        Message("Title is required"))
    /\ UNCHANGED <<audioContent, nextId, now, uploadResp, pipeline, summaryReqs, fileReq, others>>

\* the accepted upload up to "await storage.createAudioContent(..)"
UploadCreate(file, title, source) ==
    /\ Dispatch("POST", UploadPath) = UploadRoute
    /\ UploadRejection(file, title) = "none"
    /\ nextId <= MaxUploads
    /\ LET id == randomUUID
           content == createAudioContent(UploadInsert(file, title, source), id, now)
       IN /\ audioContent' = [i \in DOMAIN audioContent \cup {id} |->
                                 IF i = id THEN content ELSE audioContent[i]]
          /\ uploadResp' = [i \in DOMAIN uploadResp \cup {id} |->
                                 IF i = id THEN [sent |-> FALSE, status |-> 0, body |-> content]
                                 ELSE uploadResp[i]]
          /\ pipeline' = [i \in DOMAIN pipeline \cup {id} |->
                                 IF i = id THEN PipelineIdle ELSE pipeline[i]]
    /\ nextId' = nextId + 1
    /\ resp' = NoResp
    /\ UNCHANGED <<now, summaryReqs, fileReq, others>>

\* res.json(audioContent): the record createAudioContent returned
UploadRespond(id) ==
    /\ id \in DOMAIN uploadResp
    /\ ~uploadResp[id].sent
    /\ uploadResp' = [uploadResp EXCEPT ![id].sent = TRUE, ![id].status = 200]
    /\ resp' = NoResp
    /\ UNCHANGED <<audioContent, nextId, now, pipeline, summaryReqs, fileReq, others>>

\* ------------------------------------------------------------ processAudioFile
\* processAudioFile called before res.json
PipelineMayStartBeforeResponse(id) ==
    /\ id \in DOMAIN pipeline
    /\ pipeline[id].pc = "idle"

\* processAudioFile run again for a record whose pipeline has ended
PipelineMayStartAgain(id) ==
    /\ id \in DOMAIN pipeline
    /\ pipeline[id].pc \in {"idle", "done"}
    /\ uploadResp[id].sent

\* the handler calls processAudioFile after res.json
PipelineMayStart(id) ==
    /\ id \in DOMAIN pipeline
    /\ pipeline[id].pc = "idle"
    /\ uploadResp[id].sent

\* processAudioFile up to the transcription call
PipelineStart(id) ==
    /\ PipelineMayStart(id)
    /\ audioContent' = StoreAfterUpdate(id, [transcriptionStatus |-> "processing"])
    /\ pipeline' = [pipeline EXCEPT
          ![id].pc = "transcribing",
          ![id].runs = @ + 1,
          ![id].calls.transcribeAudio = @ + 1]
    /\ resp' = NoResp
    /\ UNCHANGED <<nextId, now, uploadResp, summaryReqs, fileReq, others>>

\* the catch block testing for "quota" only
PipelineErrorMessageQuotaOnly(message) ==
    IF Includes(message, QuotaNeedle)
    THEN QuotaExceededMessage
    ELSE TranscriptionFailedMessage

\* the message stored after a failed transcription
PipelineErrorMessage(message) ==
    IF Includes(message, QuotaNeedle) \/ Includes(message, RateLimitNeedle)
    THEN QuotaExceededMessage
    ELSE TranscriptionFailedMessage

\* duration ? Math.round(duration) : null
PipelineDuration(duration) ==
    IF duration = Undefined \/ duration = Num(0) THEN Null ELSE duration

\* a completed update that leaves the text out
CompletedUpdateWithoutText(transcribed) ==
    [transcriptionStatus |-> "completed",
     duration |-> PipelineDuration(transcribed.duration)]

CompletedUpdate(transcribed) ==
    [transcriptionStatus |-> "completed",
     transcriptionText |-> transcribed.text,
     duration |-> PipelineDuration(transcribed.duration)]

\* a catch block that marks the record completed
ErrorUpdateCompleted(thrown) ==
    [transcriptionStatus |-> "completed",
     transcriptionText |-> ErrorPrefix \o PipelineErrorMessage(thrown.message)]

\* a catch block that stores the message and leaves the status alone
ErrorUpdateTextOnly(thrown) ==
    [transcriptionText |-> ErrorPrefix \o PipelineErrorMessage(thrown.message)]

ErrorUpdate(thrown) ==
    [transcriptionStatus |-> "error",
     transcriptionText |-> ErrorPrefix \o PipelineErrorMessage(thrown.message)]

\* transcribeAudio returns: the record is completed, generateSummary is called
TranscriptionReturns(id, outcome) ==
    /\ id \in DOMAIN pipeline
    /\ pipeline[id].pc = "transcribing"
    /\ LET transcribed == transcribeAudio(outcome)
       IN /\ ~transcribed.threw
          /\ audioContent' = StoreAfterUpdate(id, CompletedUpdate(transcribed))
          /\ pipeline' = [pipeline EXCEPT
                ![id].pc = "summarizing",
                ![id].transcription = [state |-> "returned", text |-> transcribed.text],
                ![id].calls.generateSummary = @ + 1]
    /\ resp' = NoResp
    /\ UNCHANGED <<nextId, now, uploadResp, summaryReqs, fileReq, others>>

\* a catch block that calls transcribeAudio again
AfterTranscriptionThrewRetry(p, thrown) ==
    [p EXCEPT !.pc = "transcribing",
              !.calls.transcribeAudio = @ + 1]

\* the pipeline after catch (transcriptionError): nothing more is called
AfterTranscriptionThrew(p, thrown) ==
    [p EXCEPT !.pc = "done",
              !.transcription = [state |-> "threw", message |-> thrown.message]]

\* transcribeAudio throws: catch (transcriptionError)
TranscriptionThrows(id, outcome) ==
    /\ id \in DOMAIN pipeline
    /\ pipeline[id].pc = "transcribing"
    /\ LET transcribed == transcribeAudio(outcome)
       IN /\ transcribed.threw
          /\ audioContent' = StoreAfterUpdate(id, ErrorUpdate(transcribed))
          /\ pipeline' = [pipeline EXCEPT ![id] = AfterTranscriptionThrew(@, transcribed)]
    /\ resp' = NoResp
    /\ UNCHANGED <<nextId, now, uploadResp, summaryReqs, fileReq, others>>

\* an update that stores the summary and leaves the keywords for later
SummaryUpdateSummaryOnly(generated) ==
    [aiSummary |-> generated.summary]

SummaryUpdate(generated) ==
    [aiSummary |-> generated.summary, keywords |-> generated.keywords]

\* a summary failure handled like a transcription failure
StoreAfterSummaryErrorMarksError(id) ==
    StoreAfterUpdate(id, [transcriptionStatus |-> "error"])

\* the store after the pipeline's generateSummary threw: catch (summaryError)
StoreAfterSummaryError(id) == audioContent

\* generateSummary returns in the pipeline
PipelineSummaryReturns(id, outcome) ==
    /\ id \in DOMAIN pipeline
    /\ pipeline[id].pc = "summarizing"
    /\ LET generated == generateSummary(outcome)
       IN /\ ~generated.threw
          /\ audioContent' = StoreAfterUpdate(id, SummaryUpdate(generated))
          /\ pipeline' = [pipeline EXCEPT
                ![id].pc = "done",
                ![id].summary = [state |-> "returned", summary |-> generated.summary,
                                 keywords |-> generated.keywords]]
    /\ resp' = NoResp
    /\ UNCHANGED <<nextId, now, uploadResp, summaryReqs, fileReq, others>>

\* generateSummary throws in the pipeline: logged, nothing written
PipelineSummaryThrows(id, outcome) ==
    /\ id \in DOMAIN pipeline
    /\ pipeline[id].pc = "summarizing"
    /\ LET generated == generateSummary(outcome)
       IN /\ generated.threw
          /\ audioContent' = StoreAfterSummaryError(id)
          /\ pipeline' = [pipeline EXCEPT
                ![id].pc = "done",
                ![id].summary = [state |-> "threw"]]
    /\ resp' = NoResp
    /\ UNCHANGED <<nextId, now, uploadResp, summaryReqs, fileReq, others>>

\* ------------------------------------------- POST /api/audio-content/:id/summary
\* the summary route without its transcript check
SummaryPrecheckNoTranscriptCheck(id) ==
    IF id \notin DOMAIN audioContent THEN 404 ELSE 0

\* the handler's checks before it calls generateSummary: 0 when it goes on
SummaryPrecheck(id) ==
    IF id \notin DOMAIN audioContent THEN 404
    ELSE IF ~Truthy(audioContent[id].transcriptionText) THEN 400
    ELSE 0

SummaryRoute == "POST /api/audio-content/:id/summary"

SummaryRequest(id) == Request("POST", ContentSubPath(id, "summary"), [id |-> id])

SummaryRejected(id) ==
    /\ Dispatch("POST", ContentSubPath(id, "summary")) = SummaryRoute
    /\ SummaryPrecheck(id) # 0
    /\ resp' = Response(SummaryRequest(id), SummaryRoute, SummaryPrecheck(id),
                        Message(IF SummaryPrecheck(id) = 404
                                THEN "Audio content not found"
                                ELSE "Transcription not available"))
    /\ UNCHANGED <<audioContent, nextId, now, uploadResp, pipeline, summaryReqs, fileReq, others>>

\* the handler suspends in generateSummary(content.transcriptionText)
SummaryCall(id) ==
    /\ Dispatch("POST", ContentSubPath(id, "summary")) = SummaryRoute
    /\ SummaryPrecheck(id) = 0
    /\ BagCardinality(summaryReqs) < MaxSummaryReqs
    /\ summaryReqs' = summaryReqs (+)
                        SetToBag({[id |-> id, text |-> audioContent[id].transcriptionText]})
    /\ resp' = NoResp
    /\ UNCHANGED <<audioContent, nextId, now, uploadResp, pipeline, fileReq, others>>

SummaryReturns(req, outcome) ==
    /\ BagIn(req, summaryReqs)
    /\ LET generated == generateSummary(outcome)
       IN /\ ~generated.threw
          /\ audioContent' = StoreAfterUpdate(req.id, SummaryUpdate(generated))
          /\ resp' = Response(SummaryRequest(req.id), SummaryRoute, 200,
                              updateAudioContent(req.id, SummaryUpdate(generated)))
    /\ summaryReqs' = summaryReqs (-) SetToBag({req})
    /\ UNCHANGED <<nextId, now, uploadResp, pipeline, fileReq, others>>

SummaryThrows(req, outcome) ==
    /\ BagIn(req, summaryReqs)
    /\ generateSummary(outcome).threw
    /\ resp' = Response(SummaryRequest(req.id), SummaryRoute, 500,
                        Message("Failed to generate summary"))
    /\ summaryReqs' = summaryReqs (-) SetToBag({req})
    /\ UNCHANGED <<audioContent, nextId, now, uploadResp, pipeline, fileReq, others>>

\* ------------------------------------------ PATCH /api/audio-content/:id/progress
ProgressRoute == "PATCH /api/audio-content/:id/progress"

\* a progress handler that leaves lastAccessedAt alone
ProgressUpdatesNoTouch(progress, t) == [progress |-> progress]

\* { progress, lastAccessedAt: new Date() }
ProgressUpdates(progress, t) == [progress |-> progress, lastAccessedAt |-> t]

UpdateProgress(id, progress) ==
    LET updates == ProgressUpdates(progress, now)
        req == Request("PATCH", ContentSubPath(id, "progress"),
                       [id |-> id, progress |-> progress])
    IN /\ Dispatch("PATCH", ContentSubPath(id, "progress")) = ProgressRoute
       /\ audioContent' = StoreAfterUpdate(id, updates)
       /\ resp' = IF id \in DOMAIN audioContent
                  THEN Response(req, ProgressRoute, 200, updateAudioContent(id, updates))
                  ELSE Response(req, ProgressRoute, 404, Message("Audio content not found"))
       /\ UNCHANGED <<nextId, now, uploadResp, pipeline, summaryReqs, fileReq, others>>

\* ------------------------------------------------- GET /api/audio-content/<segment>
ContentRoute == "GET /api/audio-content/:id"
SearchRoute == "GET /api/audio-content/search"

\* the handler of GET /api/audio-content/:id
GetContentResponse(req, id) ==
    IF id \in DOMAIN audioContent
    THEN Response(req, ContentRoute, 200, getAudioContent(id))
    ELSE Response(req, ContentRoute, 404, Message("Audio content not found"))

\* the handler of GET /api/audio-content/search
SearchResponse(req, q) ==
    IF ~Truthy(q)
    THEN Response(req, SearchRoute, 400, Message("Search query is required"))
    ELSE Response(req, SearchRoute, 200, [results |-> searchAudioContent(MOCK_USER_ID, q)])

\* the segments a client puts after /api/audio-content/
BrowseSegments == {Lit("search")} \cup {IdSeg(id) : id \in RequestIds}

\* a GET of /api/audio-content/<segment>?q=..., answered by the route Express picks
GetContentOrSearch(segment, q) ==
    LET path == <<Lit("api"), Lit("audio-content"), segment>>
        req == Request("GET", path, [q |-> q])
        route == Dispatch("GET", path)
    IN /\ route \in {ContentRoute, SearchRoute}
       /\ resp' = IF route = ContentRoute
                  THEN GetContentResponse(req, ParamId(segment))
                  ELSE SearchResponse(req, q)
       /\ UNCHANGED <<audioContent, nextId, now, uploadResp, pipeline, summaryReqs, fileReq, others>>

\* ------------------------------------------------------------ GET /api/audio/:id
AudioRoute == "GET /api/audio/:id"
AudioPath(id) == <<Lit("api"), Lit("audio"), IdSeg(id)>>

BytesEquals ==
    <<"b", "y", "t", "e", "s", "=">>
BytesSpace ==
    <<"b", "y", "t", "e", "s", " ">>

\* path.extname(fileName): from the last "." on, "" when there is none
ExtName(fileName) ==
    LET dots == {i \in 2..Len(fileName) : fileName[i] = "."}
    IN IF dots = {} THEN <<>>
       ELSE SubSeq(fileName, CHOOSE i \in dots : \A j \in dots : j <= i, Len(fileName))

\* mimeMap[ext] || mimeType
MimeOfExtension(ext, mimeType) ==
    IF ext = <<".", "m", "p", "3">> THEN "audio/mpeg"
    ELSE IF ext = <<".", "w", "a", "v">> THEN "audio/wav"
    ELSE IF ext = <<".", "m", "4", "a">> THEN "audio/mp4"
    ELSE IF ext = <<".", "f", "l", "a", "c">> THEN "audio/flac"
    ELSE IF ext = <<".", "o", "g", "g">> THEN "audio/ogg"
    ELSE mimeType

\* the Content-Type the handler sends for a record
ContentType(content) ==
    LET mimeType == IF content.mimeType = "" THEN "audio/mpeg" ELSE content.mimeType
    IN IF content.fileName # <<>>
       THEN MimeOfExtension(ToLowerCase(ExtName(content.fileName)), mimeType)
       ELSE mimeType

\* range.replace(/bytes=/, "").split("-")
RangeParts(range) == Split(RemoveFirst(range, BytesEquals), "-")

RangeStart(parts) == parseInt(parts[1])

\* parts[1] ? parseInt(parts[1], 10) : fileSize - 1
RangeEnd(parts, fileSize) ==
    IF Len(parts) >= 2 /\ parts[2] # <<>> THEN parseInt(parts[2]) ELSE Num(fileSize - 1)

\* end - start, the last byte not counted
ChunksizeOffByOne(start, end) ==
    IF start = NaN \/ end = NaN THEN NaN ELSE Num(end[2] - start[2])

\* (end - start) + 1
Chunksize(start, end) ==
    IF start = NaN \/ end = NaN THEN NaN ELSE Num((end[2] - start[2]) + 1)

\* fs.createReadStream(path, { start, end }) throws for a start or end that is no
\* integer and for start > end
ReadStreamThrows(start, end) ==
    start = NaN \/ end = NaN \/ start[2] > end[2]

\* the bytes a read stream { start, end } delivers from a file of fileSize bytes
StreamWindow(start, end, fileSize) ==
    [first |-> start[2], last |-> IF end[2] < fileSize THEN end[2] ELSE fileSize - 1]

ContentRange(start, end, fileSize) ==
    BytesSpace \o NumberToString(start) \o <<"-">> \o NumberToString(end)
        \o <<"/">> \o NatToString(fileSize)

\* the whole handler: what it answers to req
ServeAudioResponse(req) ==
    LET p == req.params IN
    IF ~p.exists
    THEN Response(req, AudioRoute, 404, Message("Audio content not found"))
    ELSE IF ~p.onDisk
    THEN Response(req, AudioRoute, 404, Message("Audio file not found"))
    ELSE IF Truthy(p.range)
    THEN LET parts == RangeParts(p.range)
             start == RangeStart(parts)
             end == RangeEnd(parts, p.fileSize)
         IN IF ReadStreamThrows(start, end)
            THEN Response(req, AudioRoute, 500, Message("Failed to serve audio file"))
            ELSE Response(req, AudioRoute, 206,
                    [contentRange |-> ContentRange(start, end, p.fileSize),
                     acceptRanges |-> "bytes",
                     contentLength |-> Chunksize(start, end),
                     contentType |-> ContentType(p.content),
                     stream |-> StreamWindow(start, end, p.fileSize)])
    ELSE Response(req, AudioRoute, 200,
            [contentLength |-> Num(p.fileSize),
             contentType |-> ContentType(p.content),
             acceptRanges |-> "bytes",
             stream |-> [first |-> 0, last |-> p.fileSize - 1]])

\* What a player may ask for.  The Range header is written by the client from
\* the offsets it wants: "bytes=<first>-<last>", either offset possibly left out.
FileSizes == {1, 3, 1000}
RangeOffsets == {0, 1, 2, 99, 999, 1000}
ServedContents ==
    { [fileName |-> FileNameMp3, mimeType |-> "audio/mpeg"],
      [fileName |-> FileNameM4a, mimeType |-> "audio/m4a"],
      [fileName |-> FileNameNoExt, mimeType |-> ""] }

OffsetToString(offset) == IF offset = Undefined THEN <<>> ELSE NumberToString(offset)

RangeHeader(first, last) ==
    BytesEquals \o OffsetToString(first) \o <<"-">> \o OffsetToString(last)

AudioRequest(exists, onDisk, content, fileSize, ranged, first, last) ==
    Request("GET", AudioPath(1),
            [exists |-> exists, onDisk |-> onDisk, content |-> content,
             fileSize |-> fileSize, first |-> first, last |-> last,
             range |-> IF ranged THEN RangeHeader(first, last) ELSE Undefined])

NoFileRequest == Request("none", <<>>, Message("none"))

AudioRequests ==
    LET offsets == {Num(n) : n \in RangeOffsets} \cup {Undefined}
    IN { AudioRequest(exists, onDisk, content, fileSize, TRUE, first, last) :
            exists \in BOOLEAN, onDisk \in BOOLEAN, content \in ServedContents,
            fileSize \in FileSizes, first \in offsets, last \in offsets }
       \cup
       { AudioRequest(exists, onDisk, content, fileSize, FALSE, Undefined, Undefined) :
            exists \in BOOLEAN, onDisk \in BOOLEAN, content \in ServedContents,
            fileSize \in FileSizes }

ServeAudio ==
    /\ fileReq # NoFileRequest
    /\ Dispatch(fileReq.method, fileReq.path) = AudioRoute
    /\ resp' = ServeAudioResponse(fileReq)
    /\ UNCHANGED <<audioContent, nextId, now, uploadResp, pipeline, summaryReqs, fileReq, others>>

\* ---------------------------------------- POST /api/audio-content/:id/key-points
KeyPointsRoute == "POST /api/audio-content/:id/key-points"

\* What the chat-completion call does for a key-points prompt.
KeyPointCompletions ==
    { [ok |-> FALSE, message |-> MsgConnection],
      [ok |-> TRUE, content |-> JsonNull],
      [ok |-> TRUE, content |-> NotJson],
      [ok |-> TRUE, content |-> JsonObject([keyPoints |-> JsonArray(<<"point">>)])],
      [ok |-> TRUE, content |-> JsonObject([summary |-> JsonString(SummaryText)])] }

\* the handler's checks before it calls extractKeyPoints: 0 when it goes on
KeyPointsPrecheck(id) ==
    IF id \notin DOMAIN audioContent THEN 404
    ELSE IF ~Truthy(audioContent[id].transcriptionText) THEN 400
    ELSE 0

KeyPointsRequest(id) == Request("POST", ContentSubPath(id, "key-points"), [id |-> id])

\* a key-points handler that stores the points as the record's keywords
StoreAfterKeyPointsPersists(id, keyPoints) ==
    StoreAfterUpdate(id, [keywords |-> keyPoints])

\* the content map after the handler has the points: it only sends them
StoreAfterKeyPoints(id, keyPoints) == audioContent

KeyPointsRejected(id) ==
    /\ Dispatch("POST", ContentSubPath(id, "key-points")) = KeyPointsRoute
    /\ KeyPointsPrecheck(id) # 0
    /\ resp' = Response(KeyPointsRequest(id), KeyPointsRoute, KeyPointsPrecheck(id),
                        Message(IF KeyPointsPrecheck(id) = 404
                                THEN "Audio content not found"
                                ELSE "Transcription not available"))
    /\ UNCHANGED <<audioContent, nextId, now, uploadResp, pipeline, summaryReqs, fileReq,
                   highlights, nextHighlightId, transcriptSegments, nextSegmentId, keyPointReqs, ret>>

\* the handler suspends in extractKeyPoints(content.transcriptionText)
KeyPointsCall(id) ==
    /\ Dispatch("POST", ContentSubPath(id, "key-points")) = KeyPointsRoute
    /\ KeyPointsPrecheck(id) = 0
    /\ BagCardinality(keyPointReqs) < MaxKeyPointReqs
    /\ keyPointReqs' = keyPointReqs (+)
                        SetToBag({[id |-> id, text |-> audioContent[id].transcriptionText]})
    /\ resp' = NoResp
    /\ UNCHANGED <<audioContent, nextId, now, uploadResp, pipeline, summaryReqs, fileReq,
                   highlights, nextHighlightId, transcriptSegments, nextSegmentId, ret>>

KeyPointsReturns(req, outcome) ==
    /\ BagIn(req, keyPointReqs)
    /\ LET extracted == extractKeyPoints(outcome)
       IN /\ ~extracted.threw
          /\ audioContent' = StoreAfterKeyPoints(req.id, extracted.keyPoints)
          /\ resp' = Response(KeyPointsRequest(req.id), KeyPointsRoute, 200,
                              [keyPoints |-> extracted.keyPoints])
    /\ keyPointReqs' = keyPointReqs (-) SetToBag({req})
    /\ UNCHANGED <<nextId, now, uploadResp, pipeline, summaryReqs, fileReq,
                   highlights, nextHighlightId, transcriptSegments, nextSegmentId, ret>>

KeyPointsThrows(req, outcome) ==
    /\ BagIn(req, keyPointReqs)
    /\ extractKeyPoints(outcome).threw
    /\ resp' = Response(KeyPointsRequest(req.id), KeyPointsRoute, 500,
                        Message("Failed to extract key points"))
    /\ keyPointReqs' = keyPointReqs (-) SetToBag({req})
    /\ UNCHANGED <<audioContent, nextId, now, uploadResp, pipeline, summaryReqs, fileReq,
                   highlights, nextHighlightId, transcriptSegments, nextSegmentId, ret>>

\* ------------------------------------------------------------ highlight routes
CreateHighlightRoute == "POST /api/highlights"
DeleteHighlightRoute == "DELETE /api/highlights/:id"
GetHighlightsRoute == "GET /api/audio-content/:id/highlights"
HighlightsPath == <<Lit("api"), Lit("highlights")>>
HighlightPath(id) == <<Lit("api"), Lit("highlights"), IdSeg(id)>>

HighlightText == <<"k", "e", "y", " ", "i", "d", "e", "a">>
Green == <<"g", "r", "e", "e", "n">>
NoteText == <<"r", "e", "v", "i", "s", "i", "t">>

\* ids a highlight request may name
HighlightIds == 0..MaxHighlights

\* a call of a MemStorage or gateway method, with what it returned
Call(op, args, result) == [op |-> op, args |-> args, result |-> result]

HighlightBody(audioContentId, startTime, color) ==
    [audioContentId |-> audioContentId, text |-> HighlightText,
     startTime |-> startTime, endTime |-> Num(30), color |-> color, note |-> Undefined]

\* request bodies of POST /api/highlights; the last has no startTime
HighlightBodies ==
    { HighlightBody(1, Num(20), Undefined),
      HighlightBody(1, Num(5), Green),
      HighlightBody(2, Num(5), Undefined),
      HighlightBody(1, Undefined, Undefined) }

\* insertHighlightSchema.parse(req.body): text, startTime and endTime are required
ParseHighlight(body) ==
    IF body.text = Undefined \/ body.startTime = Undefined \/ body.endTime = Undefined
    THEN [threw |-> TRUE]
    ELSE [threw |-> FALSE, value |-> body]

CreateHighlight(body) ==
    LET req == Request("POST", HighlightsPath, body)
        parsed == ParseHighlight(body)
    IN /\ Dispatch("POST", HighlightsPath) = CreateHighlightRoute
       /\ IF parsed.threw
          THEN /\ resp' = Response(req, CreateHighlightRoute, 400,
                                   Message("Invalid highlight data"))
               /\ ret' = NoCall
               /\ UNCHANGED <<highlights, nextHighlightId>>
          ELSE LET highlight ==
                       createHighlight(Merge(parsed.value, [userId |-> MOCK_USER_ID]),
                                       nextHighlightId, now)
               IN /\ nextHighlightId <= MaxHighlights
                  /\ highlights' = (nextHighlightId :> highlight) @@ highlights
                  /\ nextHighlightId' = nextHighlightId + 1
                  /\ ret' = Call("createHighlight", body, highlight)
                  /\ resp' = Response(req, CreateHighlightRoute, 200, highlight)
       /\ UNCHANGED <<audioContent, nextId, now, uploadResp, pipeline, summaryReqs, fileReq,
                      transcriptSegments, nextSegmentId, keyPointReqs>>

DeleteHighlight(id) ==
    LET req == Request("DELETE", HighlightPath(id), [id |-> id])
        deleted == deleteHighlight(id)
    IN /\ Dispatch("DELETE", HighlightPath(id)) = DeleteHighlightRoute
       /\ highlights' = Without(highlights, id)
       /\ ret' = Call("deleteHighlight", [id |-> id], deleted)
       /\ resp' = IF ~deleted
                  THEN Response(req, DeleteHighlightRoute, 404, Message("Highlight not found"))
                  ELSE Response(req, DeleteHighlightRoute, 200,
                                Message("Highlight deleted successfully"))
       /\ UNCHANGED <<audioContent, nextId, now, uploadResp, pipeline, summaryReqs, fileReq,
                      nextHighlightId, transcriptSegments, nextSegmentId, keyPointReqs>>

GetHighlights(id) ==
    LET req == Request("GET", ContentSubPath(id, "highlights"), [id |-> id])
    IN /\ Dispatch("GET", ContentSubPath(id, "highlights")) = GetHighlightsRoute
       /\ ret' = Call("getHighlightsByAudioContent", [id |-> id],
                      getHighlightsByAudioContent(id))
       /\ resp' = Response(req, GetHighlightsRoute, 200,
                           [results |-> getHighlightsByAudioContent(id)])
       /\ UNCHANGED <<audioContent, nextId, now, uploadResp, pipeline, summaryReqs, fileReq,
                      highlights, nextHighlightId, transcriptSegments, nextSegmentId, keyPointReqs>>

\* ------------------------------------------ MemStorage methods, called directly
Users == {MOCK_USER_ID, "user-456"}

TitleSeminar == <<"S", "e", "m", "i", "n", "a", "r">>

\* updates of a content record: a new title; a touch
ContentUpdates == {[title |-> TitleSeminar], [lastAccessedAt |-> now]}

\* updates of a highlight: a note; an earlier start
HighlightUpdates == {[note |-> NoteText], [startTime |-> Num(1)]}

StoreCreateContent(userId) ==
    LET insert == Merge(UploadInsert(Mp3File, TitleLecture, Undefined), [userId |-> userId])
        content == createAudioContent(insert, randomUUID, now)
    IN /\ nextId <= MaxUploads
       /\ audioContent' = (randomUUID :> content) @@ audioContent
       /\ nextId' = nextId + 1
       /\ ret' = Call("createAudioContent", insert, content)
       /\ resp' = NoResp
       /\ UNCHANGED <<now, uploadResp, pipeline, summaryReqs, fileReq,
                      highlights, nextHighlightId, transcriptSegments, nextSegmentId, keyPointReqs>>

StoreUpdateContent(id, updates) ==
    /\ audioContent' = StoreAfterUpdate(id, updates)
    /\ ret' = Call("updateAudioContent", [id |-> id, updates |-> updates],
                   updateAudioContent(id, updates))
    /\ resp' = NoResp
    /\ UNCHANGED <<nextId, now, uploadResp, pipeline, summaryReqs, fileReq,
                   highlights, nextHighlightId, transcriptSegments, nextSegmentId, keyPointReqs>>

\* a deleteAudioContent that also drops the record's transcript segments
SegmentsAfterContentDeleteCascade(id) == deleteTranscriptSegments(id)

\* the segment map after deleteAudioContent(id): this.audioContent.delete(id)
\* is all the method does
SegmentsAfterContentDelete(id) == transcriptSegments

StoreDeleteContent(id) ==
    /\ audioContent' = Without(audioContent, id)
    /\ transcriptSegments' = SegmentsAfterContentDelete(id)
    /\ ret' = Call("deleteAudioContent", [id |-> id], deleteAudioContent(id))
    /\ resp' = NoResp
    /\ UNCHANGED <<nextId, now, uploadResp, pipeline, summaryReqs, fileReq,
                   highlights, nextHighlightId, nextSegmentId, keyPointReqs>>

MaxSegments == 2

SegmentText == <<"h", "i">>

Segment(audioContentId, sequenceNumber, confidence) ==
    [audioContentId |-> audioContentId, startTime |-> Num(0), endTime |-> Num(4),
     text |-> SegmentText, confidence |-> confidence, sequenceNumber |-> sequenceNumber]

\* segments given to createTranscriptSegment
SegmentInserts ==
    { Segment(1, Num(2), Num(90)), Segment(1, Num(1), Undefined), Segment(2, Num(1), Num(0)) }

StoreCreateSegment(segment) ==
    LET created == createTranscriptSegment(segment, nextSegmentId)
    IN /\ nextSegmentId <= MaxSegments
       /\ transcriptSegments' = (nextSegmentId :> created) @@ transcriptSegments
       /\ nextSegmentId' = nextSegmentId + 1
       /\ ret' = Call("createTranscriptSegment", segment, created)
       /\ resp' = NoResp
       /\ UNCHANGED <<audioContent, nextId, now, uploadResp, pipeline, summaryReqs, fileReq,
                      highlights, nextHighlightId, keyPointReqs>>

TranscriptRoute == "GET /api/audio-content/:id/transcript"

\* GET /api/audio-content/:id/transcript
GetTranscript(id) ==
    LET req == Request("GET", ContentSubPath(id, "transcript"), [id |-> id])
    IN /\ Dispatch("GET", ContentSubPath(id, "transcript")) = TranscriptRoute
       /\ ret' = Call("getTranscriptSegments", [id |-> id], getTranscriptSegments(id))
       /\ resp' = Response(req, TranscriptRoute, 200,
                           [results |-> getTranscriptSegments(id)])
       /\ UNCHANGED <<audioContent, nextId, now, uploadResp, pipeline, summaryReqs, fileReq,
                      highlights, nextHighlightId, transcriptSegments, nextSegmentId,
                      keyPointReqs>>

StoreGetByUser(userId) ==
    /\ ret' = Call("getAudioContentByUser", [userId |-> userId],
                   getAudioContentByUser(userId))
    /\ resp' = NoResp
    /\ UNCHANGED <<audioContent, nextId, now, uploadResp, pipeline, summaryReqs, fileReq,
                   highlights, nextHighlightId, transcriptSegments, nextSegmentId, keyPointReqs>>

StoreSearch(userId, query) ==
    /\ ret' = Call("searchAudioContent", [userId |-> userId, query |-> query],
                   searchAudioContent(userId, query))
    /\ resp' = NoResp
    /\ UNCHANGED <<audioContent, nextId, now, uploadResp, pipeline, summaryReqs, fileReq,
                   highlights, nextHighlightId, transcriptSegments, nextSegmentId, keyPointReqs>>

StoreUpdateHighlight(id, updates) ==
    /\ highlights' = HighlightsAfterUpdate(id, updates)
    /\ ret' = Call("updateHighlight", [id |-> id, updates |-> updates],
                   updateHighlight(id, updates))
    /\ resp' = NoResp
    /\ UNCHANGED <<audioContent, nextId, now, uploadResp, pipeline, summaryReqs, fileReq,
                   nextHighlightId, transcriptSegments, nextSegmentId, keyPointReqs>>

\* ------------------------------------------------------------------- the clock
Tick ==
    /\ now < MaxClock
    /\ now' = now + 1
    /\ resp' = NoResp
    /\ ret' = NoCall
    /\ UNCHANGED <<audioContent, nextId, uploadResp, pipeline, summaryReqs, fileReq,
                   highlights, nextHighlightId, transcriptSegments, nextSegmentId, keyPointReqs>>

\* ----------------------------------------------------------- the specification
EmptyMap == [i \in {} |-> Null]

Init ==
    /\ audioContent = EmptyMap
    /\ nextId = 1
    /\ now = 0
    /\ uploadResp = EmptyMap
    /\ pipeline = EmptyMap
    /\ summaryReqs = EmptyBag
    /\ resp = NoResp
    /\ fileReq = NoFileRequest
    /\ highlights = EmptyMap
    /\ nextHighlightId = 1
    /\ transcriptSegments = EmptyMap
    /\ nextSegmentId = 1
    /\ keyPointReqs = EmptyBag
    /\ ret = NoCall

\* uploads the route turns down
UploadRejectNext ==
    \E file \in UploadFiles, title \in UploadTitles, source \in UploadSources :
        \/ UploadFilterRejects(file, title, source)
        \/ UploadNoFile(file, title, source)
        \/ UploadNoTitle(file, title, source)

\* uploads the route accepts
UploadAcceptNext ==
    \/ \E file \in UploadFiles, title \in UploadTitles, source \in UploadSources :
          UploadCreate(file, title, source)
    \/ \E id \in RequestIds : UploadRespond(id)

PipelineNext ==
    \/ \E id \in RequestIds : PipelineStart(id)
    \/ \E id \in RequestIds, outcome \in ProviderTranscriptions :
          \/ TranscriptionReturns(id, outcome)
          \/ TranscriptionThrows(id, outcome)
    \/ \E id \in RequestIds, outcome \in ProviderCompletions :
          \/ PipelineSummaryReturns(id, outcome)
          \/ PipelineSummaryThrows(id, outcome)

SummaryNext ==
    \/ \E id \in RequestIds : SummaryRejected(id) \/ SummaryCall(id)
    \/ \E req \in BagToSet(summaryReqs), outcome \in ProviderCompletions :
          \/ SummaryReturns(req, outcome)
          \/ SummaryThrows(req, outcome)

ProgressNext ==
    \E id \in RequestIds, progress \in ProgressBodies : UpdateProgress(id, progress)

BrowseNext ==
    \E segment \in BrowseSegments, q \in SearchQueries : GetContentOrSearch(segment, q)

\* accepted uploads, their pipelines, summary requests and progress updates,
\* interleaved in every order
Next == UploadAcceptNext \/ PipelineNext \/ SummaryNext \/ ProgressNext

Spec == Init /\ [][Next]_vars

\* every kind of upload request, and the pipelines of the accepted ones
NextUpload == UploadRejectNext \/ UploadAcceptNext \/ PipelineNext

SpecUpload == Init /\ [][NextUpload]_vars

\* accepted uploads, their pipelines and clients reading /api/audio-content/<segment>
NextBrowse == UploadAcceptNext \/ PipelineNext \/ BrowseNext

SpecBrowse == Init /\ [][NextBrowse]_vars

KeyPointsNext ==
    \/ \E id \in RequestIds : KeyPointsRejected(id) \/ KeyPointsCall(id)
    \/ \E req \in BagToSet(keyPointReqs), outcome \in KeyPointCompletions :
          \/ KeyPointsReturns(req, outcome)
          \/ KeyPointsThrows(req, outcome)

\* accepted uploads, their pipelines, key-points requests, and a client that
\* marks a highlight
NextKeyPoints ==
    \/ UploadAcceptNext
    \/ PipelineNext
    \/ KeyPointsNext
    \/ CreateHighlight(HighlightBody(1, Num(20), Undefined))

SpecKeyPoints == Init /\ [][NextKeyPoints]_vars

\* accepted uploads, their pipelines and progress updates, while time passes
NextClock == UploadAcceptNext \/ PipelineNext \/ ProgressNext \/ Tick

SpecClock == Init /\ [][NextClock]_vars

ContentStoreNext ==
    \/ \E userId \in Users : StoreCreateContent(userId)
    \/ \E id \in RequestIds :
          \/ StoreDeleteContent(id)
          \/ \E updates \in ContentUpdates : StoreUpdateContent(id, updates)

HighlightNext ==
    \/ \E body \in HighlightBodies : CreateHighlight(body)
    \/ \E id \in HighlightIds :
          \/ DeleteHighlight(id)
          \/ \E updates \in HighlightUpdates : StoreUpdateHighlight(id, updates)
    \/ \E id \in RequestIds : GetHighlights(id)

\* the storage object under creates, updates and deletes of content records
\* and highlights
NextStore == ContentStoreNext \/ HighlightNext

SpecStore == Init /\ [][NextStore]_vars

\* content records of two users created, touched, deleted and listed while
\* time passes
NextRecent ==
    \/ ContentStoreNext
    \/ \E userId \in Users : StoreGetByUser(userId)
    \/ Tick

SpecRecent == Init /\ [][NextRecent]_vars

SourceTalk == <<"T", "A", "L", "K", " ", "r", "a", "d", "i", "o">>

\* records as createAudioContent and later updates leave them
SearchRecords(id) ==
    { Merge(createAudioContent(Merge(UploadInsert(Mp3File, title, Undefined),
                                     [userId |-> userId, source |-> source]), id, 0),
            [transcriptionText |-> text, aiSummary |-> summary]) :
        userId \in Users, title \in {TitleLecture, TitleSeminar},
        source \in {Null, SourceTalk}, text \in {Null, TranscriptHello},
        summary \in {Null, SummaryText} }

\* content maps of one or two such records
SearchStores ==
    { (1 :> first) : first \in SearchRecords(1) }
    \cup { (1 :> first) @@ (2 :> second) :
             first \in SearchRecords(1), second \in SearchRecords(2) }

\* the queries: in lower case, in upper case, matching nothing, empty
StoreQueries ==
    {QueryLecture, <<"T", "A", "L", "K">>, <<"h", "e", "l", "l", "o", "!">>, <<>>}

InitSearch ==
    /\ audioContent \in SearchStores
    /\ nextId = Cardinality(DOMAIN audioContent) + 1
    /\ now = 0
    /\ uploadResp = EmptyMap
    /\ pipeline = EmptyMap
    /\ summaryReqs = EmptyBag
    /\ resp = NoResp
    /\ fileReq = NoFileRequest
    /\ highlights = EmptyMap
    /\ nextHighlightId = 1
    /\ transcriptSegments = EmptyMap
    /\ nextSegmentId = 1
    /\ keyPointReqs = EmptyBag
    /\ ret = NoCall

NextSearch == \E userId \in Users, query \in StoreQueries : StoreSearch(userId, query)

\* searchAudioContent on any such content map
SpecSearch == InitSearch /\ [][NextSearch]_vars

\* a JSON object with the members that are not left out (JsonUndefined)
GatewayObject(summary, keywords, keyPoints) ==
    LET all == [summary |-> summary, keywords |-> keywords, keyPoints |-> keyPoints]
        present == {n \in DOMAIN all : all[n] # JsonUndefined}
    IN JsonObject([n \in present |-> all[n]])

\* What the chat-completion call may do: raise an error, or return a message
\* whose content is null, is not JSON, is the JSON null, string or array, or
\* is an object with or without each expected member, of the expected type or
\* another.
GatewayCompletions ==
    { [ok |-> FALSE, message |-> MsgConnection] }
    \cup { [ok |-> TRUE, content |-> c] :
             c \in {JsonNull, NotJson, JsonLiteralNull,
                    JsonString(SummaryText), JsonArray(<<"talk">>)} }
    \cup { [ok |-> TRUE, content |-> GatewayObject(summary, keywords, keyPoints)] :
             summary \in {JsonUndefined, JsonNull, JsonString(<<>>), JsonString(SummaryText)},
             keywords \in {JsonUndefined, JsonNull, JsonString(SummaryText),
                           JsonArray(<<"talk">>)},
             keyPoints \in {JsonUndefined, JsonString(SummaryText), JsonArray(<<"point">>)} }

CallGenerateSummary(outcome) ==
    /\ ret' = Call("generateSummary", outcome, generateSummary(outcome))
    /\ resp' = NoResp
    /\ UNCHANGED <<audioContent, nextId, now, uploadResp, pipeline, summaryReqs, fileReq,
                   highlights, nextHighlightId, transcriptSegments, nextSegmentId, keyPointReqs>>

CallExtractKeyPoints(outcome) ==
    /\ ret' = Call("extractKeyPoints", outcome, extractKeyPoints(outcome))
    /\ resp' = NoResp
    /\ UNCHANGED <<audioContent, nextId, now, uploadResp, pipeline, summaryReqs, fileReq,
                   highlights, nextHighlightId, transcriptSegments, nextSegmentId, keyPointReqs>>

NextGateway ==
    \E outcome \in GatewayCompletions :
        CallGenerateSummary(outcome) \/ CallExtractKeyPoints(outcome)

\* generateSummary and extractKeyPoints on every such completion
SpecGateway == Init /\ [][NextGateway]_vars

\* a player's request for a stored file, any record, file size and Range header
InitRange ==
    /\ audioContent = EmptyMap
    /\ nextId = 1
    /\ now = 0
    /\ uploadResp = EmptyMap
    /\ pipeline = EmptyMap
    /\ summaryReqs = EmptyBag
    /\ resp = NoResp
    /\ fileReq \in AudioRequests
    /\ highlights = EmptyMap
    /\ nextHighlightId = 1
    /\ transcriptSegments = EmptyMap
    /\ nextSegmentId = 1
    /\ keyPointReqs = EmptyBag
    /\ ret = NoCall

SpecRange == InitRange /\ [][ServeAudio]_vars

\* ======================================================================
\* Properties
\* ======================================================================
Statuses == {"pending", "processing", "completed", "error"}
TerminalStatuses == {"completed", "error"}

\* C1: once a record's transcriptionStatus is completed or error, no step of
\* any pipeline, summary request or progress update changes it or removes
\* the record.
C1_TerminalStatusNeverChanges ==
    [][\A id \in DOMAIN audioContent :
          audioContent[id].transcriptionStatus \in TerminalStatuses
          => /\ id \in DOMAIN audioContent'
             /\ audioContent'[id].transcriptionStatus
                    = audioContent[id].transcriptionStatus]_vars

\* a completed record whose summary step failed, which a progress update and a
\* summary request have written since, beside a record that ended in error
C1_Witness ==
    \E id \in DOMAIN audioContent, other \in DOMAIN audioContent :
        /\ audioContent[id].transcriptionStatus = "completed"
        /\ pipeline[id].summary.state = "threw"
        /\ audioContent[id].progress = Num(7)
        /\ audioContent[id].aiSummary = SummaryText
        /\ audioContent[other].transcriptionStatus = "error"
        /\ pipeline[other].pc = "done"

\* C2: every stored record's transcriptionStatus is one of the four statuses;
\* the record createAudioContent returned for an upload (the upload's response
\* body) has status pending, no transcript, no summary, no keywords and
\* progress 0, and so has the stored record until the handler goes on.
C2_StatusDomainAndInitialRecord ==
    /\ \A id \in DOMAIN audioContent :
          audioContent[id].transcriptionStatus \in Statuses
    /\ \A id \in DOMAIN uploadResp :
          LET created == uploadResp[id].body
          IN /\ created.transcriptionStatus = "pending"
             /\ created.transcriptionText = Null
             /\ created.aiSummary = Null
             /\ created.keywords = <<>>
             /\ created.progress = Num(0)
             /\ ~uploadResp[id].sent
                => /\ audioContent[id].transcriptionStatus = "pending"
                   /\ audioContent[id].transcriptionText = Null
                   /\ audioContent[id].aiSummary = Null
                   /\ audioContent[id].keywords = <<>>

\* a record just created, beside one whose pipeline has ended
C2_Witness ==
    \E id \in DOMAIN audioContent, other \in DOMAIN audioContent :
        /\ ~uploadResp[id].sent
        /\ audioContent[id] = uploadResp[id].body
        /\ audioContent[id].transcriptionStatus = "pending"
        /\ audioContent[other].transcriptionStatus = "completed"

C3_QuotaText ==
    <<"E", "r", "r", "o", "r", ":", " ", "O", "p", "e", "n", "A", "I", " ", "q", "u", "o", "t", "a", " ", "e", "x", "c", "e", "e", "d", "e", "d", ".", " ", "P", "l", "e", "a", "s", "e", " ", "a", "d", "d", " ", "c", "r", "e", "d", "i", "t", "s", " ", "t", "o", " ", "y", "o", "u", "r", " ", "O", "p", "e", "n", "A", "I", " ", "a", "c", "c", "o", "u", "n", "t", ".">>
C3_GenericText ==
    <<"E", "r", "r", "o", "r", ":", " ", "T", "r", "a", "n", "s", "c", "r", "i", "p", "t", "i", "o", "n", " ", "f", "a", "i", "l", "e", "d">>

\* C3: a record whose transcription call threw has status error and the text
\* "Error: OpenAI quota exceeded. ..." when the thrown message contains
\* "quota" or "429", and "Error: Transcription failed" otherwise.
C3_TranscriptionErrorText ==
    \A id \in DOMAIN pipeline :
        pipeline[id].transcription.state = "threw"
        => LET message == pipeline[id].transcription.message
               quota == \/ Includes(message, <<"q", "u", "o", "t", "a">>)
                        \/ Includes(message, <<"4", "2", "9">>)
           IN /\ audioContent[id].transcriptionStatus = "error"
              /\ audioContent[id].transcriptionText
                    = IF quota THEN C3_QuotaText ELSE C3_GenericText

\* one record failed with a 429, the other with an error that names neither
C3_Witness ==
    \E id \in DOMAIN pipeline, other \in DOMAIN pipeline :
        /\ pipeline[id].transcription.state = "threw"
        /\ pipeline[id].transcription.message = WrapPrefix \o MsgRateLimit
        /\ audioContent[id].transcriptionText = C3_QuotaText
        /\ pipeline[other].transcription.state = "threw"
        /\ pipeline[other].transcription.message = WrapPrefix \o MsgCapitalQuota
        /\ audioContent[other].transcriptionText = C3_GenericText

\* the step is the answer 200 of a summary request for id
SummaryWrites(id) ==
    /\ resp'.route = SummaryRoute
    /\ resp'.status = 200
    /\ resp'.req.params.id = id

C5_SearchAnsweredBySearchHandler ==
    (resp.req.method = "GET" /\ resp.req.path = SearchPath)
    => /\ resp.route = SearchRoute
       /\ resp.req.params.q = Undefined => resp.status = 400
       /\ Truthy(resp.req.params.q)
          => /\ resp.status = 200
             /\ resp.body = [results |-> searchAudioContent(MOCK_USER_ID, resp.req.params.q)]

\* C6: GET /api/audio/:id on an existing record and file of N bytes with
\* Range: bytes=s-e, 0 <= s <= e < N (e = N-1 when left out), answers 206 with
\* Content-Range "bytes s-e/N", Content-Length e-s+1 and the bytes s..e.
C6_RangeResponse ==
    LET p == fileReq.params
        s == p.first[2]
        e == IF p.last = Undefined THEN p.fileSize - 1 ELSE p.last[2]
    IN (/\ resp.route = AudioRoute
        /\ p.exists /\ p.onDisk
        /\ p.range # Undefined
        /\ p.first # Undefined
        /\ s <= e /\ e < p.fileSize)
       => /\ resp.status = 206
          /\ resp.body.contentRange
                = <<"b", "y", "t", "e", "s", " ">> \o NatToString(s) \o <<"-">>
                    \o NatToString(e) \o <<"/">> \o NatToString(p.fileSize)
          /\ resp.body.contentLength = Num(e - s + 1)
          /\ resp.body.stream = [first |-> s, last |-> e]
          /\ (p.fileSize = 1000 /\ s = 0 /\ e = 99)
             => /\ resp.body.contentRange = <<"b", "y", "t", "e", "s", " ", "0", "-", "9", "9", "/", "1", "0", "0", "0">>
                /\ resp.body.contentLength = Num(100)

\* the answer to Range: bytes=0-99 on a file of 1000 bytes
C6_Witness ==
    /\ resp.route = AudioRoute
    /\ resp.status = 206
    /\ fileReq.params.range = <<"b", "y", "t", "e", "s", "=", "0", "-", "9", "9">>
    /\ fileReq.params.fileSize = 1000
    /\ resp.body.contentLength = Num(100)

\* the answer to Range: bytes=2- on a file of 3 bytes
C6_WitnessOpenEnd ==
    /\ resp.route = AudioRoute
    /\ resp.status = 206
    /\ fileReq.params.range = <<"b", "y", "t", "e", "s", "=", "2", "-">>
    /\ fileReq.params.fileSize = 3
    /\ resp.body.stream = [first |-> 2, last |-> 2]

\* C7: a pipeline has started only for an upload whose response has been sent;
\* that response is 200 with the record as created (status pending), whatever
\* the pipeline has done since.
C7_ResponseBeforePipeline ==
    \A id \in DOMAIN pipeline :
        /\ pipeline[id].pc # "idle" => uploadResp[id].sent
        /\ uploadResp[id].sent
           => /\ uploadResp[id].status = 200
              /\ uploadResp[id].body.id = id
              /\ uploadResp[id].body.transcriptionStatus = "pending"
              /\ uploadResp[id].body.transcriptionText = Null

\* the response of an upload whose pipeline has ended in error
C7_Witness ==
    \E id \in DOMAIN pipeline :
        /\ pipeline[id].pc = "done"
        /\ audioContent[id].transcriptionStatus = "error"
        /\ uploadResp[id].sent
        /\ uploadResp[id].body.transcriptionStatus = "pending"

C8_AllowedMimes == {"audio/mpeg", "audio/wav", "audio/m4a", "audio/flac", "audio/mp3"}

\* C8: an upload of a file whose MIME type is not allowed is answered 400; no
\* record, no upload response and no pipeline exists for such a file.
C8_UnsupportedMimeRejected ==
    /\ (resp.route = UploadRoute /\ resp.req.params.file # NoFile)
       => (resp.req.params.file.mimetype \notin C8_AllowedMimes => resp.status = 400)
    /\ \A id \in DOMAIN audioContent : audioContent[id].mimeType \in C8_AllowedMimes
    /\ \A id \in DOMAIN uploadResp : uploadResp[id].body.mimeType \in C8_AllowedMimes
    /\ DOMAIN pipeline \subseteq DOMAIN audioContent

\* an audio/ogg upload with a title has been turned down
C8_Witness ==
    /\ resp.route = UploadRoute
    /\ resp.req.params.file = OggFile
    /\ resp.req.params.title = TitleLecture
    /\ resp.status = 400
    /\ audioContent # EmptyMap

\* C9: an upload with no file, or with an accepted file but an empty or
\* missing title, is answered 400 and leaves records, pipelines and upload
\* responses as they were; no record has an empty or missing title.
C9_MissingFileOrTitleRejected ==
    [][/\ (resp'.route = UploadRoute
            /\ \/ resp'.req.params.file = NoFile
               \/ /\ resp'.req.params.file.mimetype \in C8_AllowedMimes
                  /\ resp'.req.params.title \in {Undefined, <<>>})
          => /\ resp'.status = 400
             /\ UNCHANGED <<audioContent, nextId, uploadResp, pipeline, summaryReqs>>
       /\ \A id \in DOMAIN audioContent' :
             audioContent'[id].title \notin {Undefined, <<>>}]_vars

\* an upload of an accepted file without a title has been turned down
C9_Witness ==
    /\ resp.route = UploadRoute
    /\ resp.req.params.file = Mp3File
    /\ resp.req.params.title = <<>>
    /\ resp.status = 400
    /\ audioContent # EmptyMap

C10_Results ==
    { <<SummaryText, <<"talk">> >>,
      <<<<"S", "u", "m", "m", "a", "r", "y", " ", "c", "o", "u", "l", "d", " ", "n", "o", "t", " ", "b", "e", " ", "g", "e", "n", "e", "r", "a", "t", "e", "d">>, <<>> >> }

\* C10: POST .../:id/summary answers 404 exactly when no record has the id and
\* 400 when the record's transcript is null or empty, in both cases calling
\* nothing and changing nothing; a call is made only with a non-empty
\* transcript; the answer 200 ends one call and changes only aiSummary and
\* keywords of that record, to the result of the call.
C10_SummaryRoute ==
    [][/\ \A r \in BagToSet(summaryReqs') :
             CopiesIn(r, summaryReqs') > CopiesIn(r, summaryReqs)
             => /\ r.id \in DOMAIN audioContent
                /\ audioContent[r.id].transcriptionText \notin {Null, <<>>}
                /\ r.text = audioContent[r.id].transcriptionText
                /\ audioContent' = audioContent
                /\ resp' = NoResp
       /\ resp'.route = SummaryRoute
          => LET id == resp'.req.params.id IN
             /\ resp'.status \in {404, 400, 500, 200}
             /\ resp'.status = 404 <=> id \notin DOMAIN audioContent
             /\ resp'.status = 400
                => audioContent[id].transcriptionText \in {Null, <<>>}
             /\ resp'.status \in {404, 400}
                => UNCHANGED <<audioContent, summaryReqs>>
             /\ (id \in DOMAIN audioContent /\ summaryReqs' = summaryReqs)
                => resp'.status = 400
             /\ resp'.status \in {200, 500}
                => /\ BagCardinality(summaryReqs') = BagCardinality(summaryReqs) - 1
                   /\ \E r \in BagToSet(summaryReqs) :
                         r.id = id /\ CopiesIn(r, summaryReqs') = CopiesIn(r, summaryReqs) - 1
             /\ resp'.status = 500 => audioContent' = audioContent
             /\ resp'.status = 200
                => /\ DOMAIN audioContent' = DOMAIN audioContent
                   /\ \A other \in DOMAIN audioContent \ {id} :
                         audioContent'[other] = audioContent[other]
                   /\ DOMAIN audioContent'[id] = DOMAIN audioContent[id]
                   /\ \A f \in DOMAIN audioContent[id] \ {"aiSummary", "keywords"} :
                         audioContent'[id][f] = audioContent[id][f]
                   /\ <<audioContent'[id].aiSummary, audioContent'[id].keywords>>
                         \in C10_Results
                   /\ resp'.body = audioContent'[id]]_vars

\* a summary request has overwritten the summary the pipeline stored
C10_Witness ==
    /\ resp.route = SummaryRoute
    /\ resp.status = 200
    /\ \E id \in DOMAIN audioContent :
          /\ resp.req.params.id = id
          /\ pipeline[id].summary.state = "returned"
          /\ pipeline[id].summary.summary = SummaryText
          /\ audioContent[id].aiSummary # SummaryText
          /\ audioContent[id].keywords = <<>>

\* a step of a key-points request: it is answered, or it suspends in the call
C11_KeyPointsStep ==
    resp'.route = KeyPointsRoute \/ keyPointReqs' # keyPointReqs

\* C11: no step of a POST .../key-points request, whether it answers 404, 400,
\* 500 or 200 with the points, changes a content record, a highlight or a
\* transcript segment.
C11_KeyPointsNeverWrites ==
    [][C11_KeyPointsStep
       => /\ UNCHANGED <<audioContent, highlights, transcriptSegments>>
          /\ resp'.route = KeyPointsRoute => resp'.status \in {404, 400, 500, 200}]_vars

\* points have been returned for a record whose keywords are still the
\* pipeline's, while a highlight is stored
C11_Witness ==
    /\ resp.route = KeyPointsRoute
    /\ resp.status = 200
    /\ resp.body.keyPoints = <<"point">>
    /\ highlights # EmptyMap
    /\ \E id \in DOMAIN audioContent :
          /\ resp.req.params.id = id
          /\ audioContent[id].keywords = <<"talk">>

\* C12: PATCH .../progress on an existing record sets progress to the body's
\* value and lastAccessedAt to the current time, changes nothing else, and
\* answers 200 with the updated record; on an unknown id it answers 404 and
\* the content map is as before.
C12_ProgressUpdate ==
    [][resp'.route = ProgressRoute
       => LET id == resp'.req.params.id
              progress == resp'.req.params.progress
          IN IF id \in DOMAIN audioContent
             THEN /\ resp'.status = 200
                  /\ DOMAIN audioContent' = DOMAIN audioContent
                  /\ audioContent'[id].progress = progress
                  /\ audioContent'[id].lastAccessedAt = now
                  /\ DOMAIN audioContent'[id] = DOMAIN audioContent[id]
                  /\ \A f \in DOMAIN audioContent[id] \ {"progress", "lastAccessedAt"} :
                        audioContent'[id][f] = audioContent[id][f]
                  /\ \A other \in DOMAIN audioContent \ {id} :
                        audioContent'[other] = audioContent[other]
                  /\ resp'.body = audioContent'[id]
             ELSE /\ resp'.status = 404
                  /\ audioContent' = audioContent]_vars

\* a record created at time 0 has been given progress 7 at time 1
C12_Witness ==
    /\ resp.route = ProgressRoute
    /\ resp.status = 200
    /\ \E id \in DOMAIN audioContent :
          /\ resp.req.params.id = id
          /\ audioContent[id].createdAt = 0
          /\ audioContent[id].lastAccessedAt = 1
          /\ audioContent[id].progress = Num(7)
          /\ resp.body = audioContent[id]

\* a progress update of an id no record has, with records stored
C12_WitnessUnknown ==
    /\ resp.route = ProgressRoute
    /\ resp.status = 404
    /\ audioContent # EmptyMap

\* result is old with exactly the fields of updates replaced
C13_Merged(old, updates, result) ==
    /\ result # NoRecord
    /\ DOMAIN result = DOMAIN old \cup DOMAIN updates
    /\ \A f \in DOMAIN updates : result[f] = updates[f]
    /\ \A f \in DOMAIN old \ DOMAIN updates : result[f] = old[f]

\* C13: updateAudioContent and updateHighlight on an absent id return undefined
\* and leave their map as it was; on a present id they return the existing
\* record with exactly the fields of the update replaced (its id kept), which
\* is never undefined, store it under that id and touch no other record.
C13_UpdateSemantics ==
    [][/\ ret'.op = "updateAudioContent"
          => LET id == ret'.args.id IN
             IF id \notin DOMAIN audioContent
             THEN ret'.result = NoRecord /\ audioContent' = audioContent
             ELSE /\ C13_Merged(audioContent[id], ret'.args.updates, ret'.result)
                  /\ ret'.result.id = id
                  /\ DOMAIN audioContent' = DOMAIN audioContent
                  /\ audioContent'[id] = ret'.result
                  /\ \A k \in DOMAIN audioContent \ {id} : audioContent'[k] = audioContent[k]
       /\ ret'.op = "updateHighlight"
          => LET id == ret'.args.id IN
             IF id \notin DOMAIN highlights
             THEN ret'.result = NoRecord /\ highlights' = highlights
             ELSE /\ C13_Merged(highlights[id], ret'.args.updates, ret'.result)
                  /\ ret'.result.id = id
                  /\ DOMAIN highlights' = DOMAIN highlights
                  /\ highlights'[id] = ret'.result
                  /\ \A k \in DOMAIN highlights \ {id} : highlights'[k] = highlights[k]]_vars

\* a highlight has been given a note, its other fields kept, beside a content
\* record that has been given a new title
C13_Witness ==
    /\ ret.op = "updateHighlight"
    /\ ret.result # NoRecord
    /\ ret.result.note = NoteText
    /\ ret.result.startTime = Num(5)
    /\ ret.result.color = Green
    /\ highlights[ret.args.id] = ret.result
    /\ \E k \in DOMAIN audioContent : audioContent[k].title = TitleSeminar

\* an update of an id that no highlight has, with highlights stored
C13_WitnessAbsent ==
    /\ ret.op = "updateHighlight"
    /\ ret.result = NoRecord
    /\ highlights # EmptyMap

\* C14: deleteHighlight and deleteAudioContent return true exactly when the id
\* is in their map; then exactly that record is removed, otherwise the map is
\* as before. DELETE /api/highlights/:id answers 404 for an absent id (not 500)
\* and 200 otherwise. An id that has been deleted is never in the map again,
\* so a second delete returns false.
C14_DeleteSemantics ==
    [][/\ ret'.op = "deleteHighlight"
          => LET id == ret'.args.id IN
             /\ ret'.result = (id \in DOMAIN highlights)
             /\ resp'.route = DeleteHighlightRoute
             /\ resp'.status = IF id \in DOMAIN highlights THEN 200 ELSE 404
             /\ DOMAIN highlights' = DOMAIN highlights \ {id}
             /\ \A k \in DOMAIN highlights' : highlights'[k] = highlights[k]
             /\ audioContent' = audioContent
       /\ ret'.op = "deleteAudioContent"
          => LET id == ret'.args.id IN
             /\ ret'.result = (id \in DOMAIN audioContent)
             /\ DOMAIN audioContent' = DOMAIN audioContent \ {id}
             /\ \A k \in DOMAIN audioContent' : audioContent'[k] = audioContent[k]
             /\ highlights' = highlights
       /\ \A id \in 1..(nextHighlightId - 1) :
             id \notin DOMAIN highlights => id \notin DOMAIN highlights'
       /\ \A id \in 1..(nextId - 1) :
             id \notin DOMAIN audioContent => id \notin DOMAIN audioContent']_vars

\* a second delete of a highlight: the id was handed out, the answer is 404,
\* and the other highlight is still stored
C14_Witness ==
    /\ ret.op = "deleteHighlight"
    /\ ret.args.id \in 1..(nextHighlightId - 1)
    /\ ret.result = FALSE
    /\ resp.status = 404
    /\ Cardinality(DOMAIN highlights) = 1

\* a content record has been deleted, the other is still stored
C14_WitnessContent ==
    /\ ret.op = "deleteAudioContent"
    /\ ret.result = TRUE
    /\ Cardinality(DOMAIN audioContent) = 1
    /\ nextId = 3

\* C15: getAudioContentByUser(u) returns each stored record of user u once and
\* no other record, a later lastAccessedAt before an earlier one, and records
\* with the same lastAccessedAt in the order of their creation.
C15_ListingByUser ==
    [][ret'.op = "getAudioContentByUser"
       => LET u == ret'.args.userId
              r == ret'.result
              mine == {k \in DOMAIN audioContent : audioContent[k].userId = u}
          IN /\ Len(r) = Cardinality(mine)
             /\ \A k \in mine : \E i \in 1..Len(r) : r[i] = audioContent[k]
             /\ \A i \in 1..Len(r) : r[i].userId = u
             /\ \A i, j \in 1..Len(r) :
                   i < j => \/ r[i].lastAccessedAt > r[j].lastAccessedAt
                            \/ /\ r[i].lastAccessedAt = r[j].lastAccessedAt
                               /\ r[i].id < r[j].id]_vars

\* the record created second is listed first: the first was created at time 0
\* and not touched since, the second at time 1
C15_Witness ==
    /\ ret.op = "getAudioContentByUser"
    /\ Len(ret.result) = 2
    /\ ret.result[1].id = 2
    /\ ret.result[1].lastAccessedAt = 1
    /\ ret.result[2].lastAccessedAt = 0

\* two records touched at the same time are listed in the order of creation
C15_WitnessTie ==
    /\ ret.op = "getAudioContentByUser"
    /\ Len(ret.result) = 2
    /\ ret.result[1].id = 1
    /\ ret.result[1].createdAt = 0
    /\ ret.result[1].lastAccessedAt = 1
    /\ ret.result[2].lastAccessedAt = 1

\* a listing that leaves out the record of the other user
C15_WitnessOtherUser ==
    /\ ret.op = "getAudioContentByUser"
    /\ Len(ret.result) = 1
    /\ Cardinality(DOMAIN audioContent) = 2

\* C16: getHighlightsByAudioContent(c), also as the body of GET
\* /api/audio-content/c/highlights, holds each stored highlight of content c
\* once and no other, in ascending order of startTime.
C16_HighlightsListing ==
    [][ret'.op = "getHighlightsByAudioContent"
       => LET c == ret'.args.id
              r == ret'.result
              mine == {k \in DOMAIN highlights : highlights[k].audioContentId = c}
          IN /\ Len(r) = Cardinality(mine)
             /\ \A k \in mine : \E i \in 1..Len(r) : r[i] = highlights[k]
             /\ \A i \in 1..Len(r) : r[i].audioContentId = c
             /\ \A i, j \in 1..Len(r) : i < j => r[i].startTime[2] <= r[j].startTime[2]
             /\ resp'.route = GetHighlightsRoute
             /\ resp'.status = 200
             /\ resp'.body.results = r]_vars

\* the highlight created second starts earlier and is listed first
C16_Witness ==
    /\ ret.op = "getHighlightsByAudioContent"
    /\ Len(ret.result) = 2
    /\ ret.result[1].id = 2
    /\ ret.result[1].startTime = Num(5)
    /\ ret.result[2].startTime = Num(20)

\* a listing after a delete, which leaves out the highlight of the other record
C16_WitnessAfterDelete ==
    /\ ret.op = "getHighlightsByAudioContent"
    /\ Len(ret.result) = 0
    /\ Cardinality(DOMAIN highlights) = 1
    /\ nextHighlightId = 3

\* a and b are the same character, or the two cases of one letter
C17_SameLetter(a, b) ==
    \/ a = b
    \/ \E i \in 1..Len(UpperCase) : {a, b} = {UpperCase[i], LowerCase[i]}

\* q occurs in field, letters compared without regard to case; never in null
C17_Within(q, field) ==
    /\ field # Null
    /\ \E k \in 0..(Len(field) - Len(q)) :
          \A i \in 1..Len(q) : C17_SameLetter(field[k + i], q[i])

\* C17: searchAudioContent(u, q) returns each record of user u in which q
\* occurs, without regard to case, in the title, source, transcriptionText or
\* aiSummary, once, and no other record; a record titled "Lecture 1" with no
\* source is returned for "lecture".
C17_SearchResult ==
    [][ret'.op = "searchAudioContent"
       => LET u == ret'.args.userId
              q == ret'.args.query
              r == ret'.result
              match == {k \in DOMAIN audioContent :
                          /\ audioContent[k].userId = u
                          /\ \/ C17_Within(q, audioContent[k].title)
                             \/ C17_Within(q, audioContent[k].source)
                             \/ C17_Within(q, audioContent[k].transcriptionText)
                             \/ C17_Within(q, audioContent[k].aiSummary)}
          IN /\ Len(r) = Cardinality(match)
             /\ \A k \in match : \E i \in 1..Len(r) : r[i] = audioContent[k]
             /\ \A i \in 1..Len(r) : r[i].userId = u
             /\ \A k \in DOMAIN audioContent :
                   (/\ q = <<"l", "e", "c", "t", "u", "r", "e">>
                    /\ audioContent[k].userId = u
                    /\ audioContent[k].title = <<"L", "e", "c", "t", "u", "r", "e", " ", "1">>
                    /\ audioContent[k].source = Null)
                   => \E i \in 1..Len(r) : r[i] = audioContent[k]]_vars

\* "lecture" finds the record titled "Lecture 1" that has no source, text or
\* summary, and not the other user's record of the same title
C17_Witness ==
    /\ ret.op = "searchAudioContent"
    /\ ret.args.query = QueryLecture
    /\ Len(ret.result) = 1
    /\ ret.result[1].title = TitleLecture
    /\ ret.result[1].source = Null
    /\ ret.result[1].transcriptionText = Null
    /\ ret.result[1].aiSummary = Null
    /\ \E k \in DOMAIN audioContent :
          /\ audioContent[k].userId # ret.args.userId
          /\ audioContent[k].title = TitleLecture

\* "TALK" finds one record by its source and one by its summary
C17_WitnessOtherFields ==
    /\ ret.op = "searchAudioContent"
    /\ ret.args.query = <<"T", "A", "L", "K">>
    /\ Len(ret.result) = 2
    /\ ret.result[1].source = SourceTalk /\ ret.result[1].aiSummary = Null
    /\ ret.result[2].source = Null /\ ret.result[2].aiSummary = SummaryText

\* the content is not JSON, or is JSON without the member name
C18_Lacks(content, name) ==
    content.type # "object" \/ name \notin DOMAIN content.members

\* C18: when the completion's content is not parseable JSON or lacks an
\* expected member, generateSummary does not throw and returns the placeholder
\* for a missing summary and the empty list for missing keywords, and
\* extractKeyPoints does not throw and returns the empty list.
C18_DefaultsInsteadOfFailing ==
    /\ (ret.op = "generateSummary" /\ ret.args.ok)
       => /\ (C18_Lacks(ret.args.content, "summary") \/ C18_Lacks(ret.args.content, "keywords"))
             => ~ret.result.threw
          /\ (~ret.result.threw /\ C18_Lacks(ret.args.content, "summary"))
             => ret.result.summary
                  = <<"S", "u", "m", "m", "a", "r", "y", " ", "c", "o", "u", "l", "d", " ", "n", "o", "t", " ", "b", "e", " ", "g", "e", "n", "e", "r", "a", "t", "e", "d">>
          /\ (~ret.result.threw /\ C18_Lacks(ret.args.content, "keywords"))
             => ret.result.keywords = <<>>
    /\ (ret.op = "extractKeyPoints" /\ ret.args.ok /\ C18_Lacks(ret.args.content, "keyPoints"))
       => /\ ~ret.result.threw
          /\ ret.result.keyPoints = <<>>

\* C19: a record is created pending; its status changes only from pending to
\* processing, by the step that starts its pipeline (which always makes that
\* change), from processing to completed, by the step in which its
\* transcription call returns, and from processing to error, by the step in
\* which that call throws.
C19_StatusLifecycle ==
    [][/\ \A id \in DOMAIN audioContent' \ DOMAIN audioContent :
             audioContent'[id].transcriptionStatus = "pending"
       /\ \A id \in DOMAIN audioContent :
             LET old == audioContent[id].transcriptionStatus
                 new == audioContent'[id].transcriptionStatus
                 started == pipeline[id].pc = "idle" /\ pipeline'[id].pc # "idle"
             IN /\ id \in DOMAIN audioContent'
                /\ started => (old = "pending" /\ new = "processing")
                /\ new # old
                   => \/ /\ old = "pending" /\ new = "processing"
                         /\ started
                      \/ /\ old = "processing" /\ new = "completed"
                         /\ pipeline[id].transcription.state = "none"
                         /\ pipeline'[id].transcription.state = "returned"
                      \/ /\ old = "processing" /\ new = "error"
                         /\ pipeline[id].transcription.state = "none"
                         /\ pipeline'[id].transcription.state = "threw"]_vars

\* one record is still processing with its call outstanding, the other has
\* gone through pending, processing and error
C19_Witness ==
    \E id \in DOMAIN audioContent, other \in DOMAIN audioContent :
        /\ audioContent[id].transcriptionStatus = "processing"
        /\ pipeline[id].pc = "transcribing"
        /\ audioContent[other].transcriptionStatus = "error"
        /\ pipeline[other].transcription.state = "threw"

\* a record has gone through pending, processing and completed, and its
\* summary is stored
C19_WitnessCompleted ==
    \E id \in DOMAIN audioContent :
        /\ audioContent[id].transcriptionStatus = "completed"
        /\ pipeline[id].transcription.state = "returned"
        /\ pipeline[id].summary.state = "returned"

C20_ClientFields ==
    {"progress", "lastAccessedAt", "title", "source", "fileName", "filePath",
     "fileSize", "mimeType"}
C20_PipelineFields ==
    {"transcriptionStatus", "transcriptionText", "aiSummary", "keywords"}

\* C20: a step of a record's pipeline leaves its progress, lastAccessedAt,
\* title, source and file fields as they are at that moment, and a progress
\* update leaves every record's transcriptionStatus, transcriptionText,
\* aiSummary and keywords as they are at that moment, whatever steps of the
\* pipeline, progress updates and summary requests came before.
C20_NoLostWrite ==
    [][/\ \A id \in DOMAIN audioContent :
             pipeline'[id] # pipeline[id]
             => \A f \in C20_ClientFields : audioContent'[id][f] = audioContent[id][f]
       /\ resp'.route = ProgressRoute
          => \A id \in DOMAIN audioContent :
                \A f \in C20_PipelineFields : audioContent'[id][f] = audioContent[id][f]]_vars

\* the only record's progress was set to 7 and the step just taken is the
\* pipeline's write of the transcript, which kept it
C20_Witness ==
    \E id \in DOMAIN audioContent :
        /\ DOMAIN audioContent = {id}
        /\ summaryReqs = EmptyBag
        /\ resp = NoResp
        /\ pipeline[id].pc = "summarizing"
        /\ audioContent[id].transcriptionStatus = "completed"
        /\ audioContent[id].progress = Num(7)

\* a progress update while the summary call is outstanding: the transcript
\* the pipeline stored is kept
C20_WitnessProgress ==
    /\ resp.route = ProgressRoute
    /\ resp.status = 200
    /\ \E id \in DOMAIN audioContent :
          /\ resp.req.params.id = id
          /\ pipeline[id].pc = "summarizing"
          /\ audioContent[id].transcriptionStatus = "completed"
          /\ audioContent[id].transcriptionText = TranscriptHello
          /\ audioContent[id].progress = Num(7)

\* ---------------------------------------------------------------- termination
\* the steps of one upload's handler and pipeline that the event loop runs once
\* they are ready: res.json, the call of processAudioFile, and the continuation
\* after each provider call has returned or thrown
PipelineProgress(id) ==
    \/ UploadRespond(id)
    \/ PipelineStart(id)
    \/ \E outcome \in ProviderTranscriptions :
          \/ TranscriptionReturns(id, outcome)
          \/ TranscriptionThrows(id, outcome)
    \/ \E outcome \in ProviderCompletions :
          \/ PipelineSummaryReturns(id, outcome)
          \/ PipelineSummaryThrows(id, outcome)

NextPipeline == UploadAcceptNext \/ PipelineNext

\* accepted uploads whose provider calls all return or throw in the end
SpecPipelineFair ==
    /\ Init
    /\ [][NextPipeline]_vars
    /\ \A id \in RequestIds : WF_vars(PipelineProgress(id))

\* C21: when every transcription and summarization call returns or throws in
\* the end, the record of every accepted upload reaches completed or error and
\* its pipeline ends; and no record is in processing once its transcription
\* call has returned or thrown
C21_PipelineTerminates ==
    /\ [](\A id \in DOMAIN pipeline :
             pipeline[id].transcription.state # "none"
             => audioContent[id].transcriptionStatus # "processing")
    /\ \A id \in RequestIds :
          (id \in DOMAIN audioContent)
          ~> (/\ id \in DOMAIN audioContent
              /\ audioContent[id].transcriptionStatus \in TerminalStatuses
              /\ pipeline[id].pc = "done")

\* both pipelines have ended, one after a failed transcription and one after
\* a transcription and a summary
C21_Witness ==
    \E a, b \in DOMAIN audioContent :
        /\ pipeline[a].pc = "done"
        /\ pipeline[a].transcription.state = "threw"
        /\ audioContent[a].transcriptionStatus = "error"
        /\ pipeline[b].pc = "done"
        /\ pipeline[b].summary.state # "none"
        /\ audioContent[b].transcriptionStatus = "completed"

\* C22: every accepted upload has one pipeline, started once; the pipeline
\* calls transcribeAudio at most once and generateSummary at most once, the
\* latter only after transcribeAudio returned; a call that threw is not made
\* again
C22_OnePipelineOneCallEach ==
    /\ DOMAIN pipeline = DOMAIN audioContent
    /\ \A id \in DOMAIN pipeline :
          LET p == pipeline[id]
          IN /\ p.runs <= 1
             /\ p.runs = 1 <=> p.pc # "idle"
             /\ p.calls.transcribeAudio = p.runs
             /\ p.calls.generateSummary <= 1
             /\ p.calls.generateSummary = 1 <=> p.transcription.state = "returned"
             /\ p.transcription.state = "threw"
                => p.pc = "done" /\ p.summary.state = "none"
             /\ p.summary.state # "none" => p.pc = "done"

\* one pipeline ended after its transcription threw, another after its
\* summary call threw: each made its calls once
C22_Witness ==
    \E a, b \in DOMAIN pipeline :
        /\ pipeline[a].transcription.state = "threw"
        /\ pipeline[a].calls = [transcribeAudio |-> 1, generateSummary |-> 0]
        /\ pipeline[b].summary.state = "threw"
        /\ pipeline[b].calls = [transcribeAudio |-> 1, generateSummary |-> 1]

\* C23: every upload creates a record under an id no record has, leaving the
\* records there are as they were, also when file and title are those of an
\* earlier upload; and a step of the pipeline started for one id changes no
\* field of any record with another id
C23_IndependentPipelines ==
    [][/\ \A id \in DOMAIN audioContent' : audioContent'[id].id = id
       /\ nextId' # nextId
          => \E new \in DOMAIN audioContent' :
                /\ new \notin DOMAIN audioContent
                /\ DOMAIN audioContent' = DOMAIN audioContent \cup {new}
                /\ DOMAIN pipeline' = DOMAIN pipeline \cup {new}
                /\ \A id \in DOMAIN audioContent :
                      /\ audioContent'[id] = audioContent[id]
                      /\ pipeline'[id] = pipeline[id]
       /\ \A id \in DOMAIN pipeline :
             pipeline'[id] # pipeline[id]
             => \A other \in DOMAIN audioContent \ {id} :
                   /\ other \in DOMAIN audioContent'
                   /\ audioContent'[other] = audioContent[other]
                   /\ pipeline'[other] = pipeline[other]]_vars

\* two uploads of the same file under the same title: one record ended in
\* error, the other is completed, and each kept its own outcome
C23_Witness ==
    \E a, b \in DOMAIN audioContent :
        /\ a # b
        /\ audioContent[a].title = audioContent[b].title
        /\ audioContent[a].fileName = audioContent[b].fileName
        /\ audioContent[a].transcriptionStatus = "error"
        /\ pipeline[a].pc = "done"
        /\ audioContent[b].transcriptionStatus = "completed"
        /\ pipeline[b].pc = "done"

\* the two pipelines are in flight at once, both waiting for transcribeAudio
C23_WitnessConcurrent ==
    \E a, b \in DOMAIN audioContent :
        /\ a # b
        /\ audioContent[a].title = audioContent[b].title
        /\ audioContent[a].fileName = audioContent[b].fileName
        /\ pipeline[a].pc = "transcribing"
        /\ pipeline[b].pc = "transcribing"

\* ---------------------------------------------- deleting a record that has children
\* content records created and deleted while highlights and transcript
\* segments naming them are created and listed
NextOrphans ==
    \/ StoreCreateContent(MOCK_USER_ID)
    \/ \E id \in RequestIds :
          \/ StoreDeleteContent(id)
          \/ GetHighlights(id)
          \/ GetTranscript(id)
    \/ \E body \in HighlightBodies : CreateHighlight(body)
    \/ \E segment \in SegmentInserts : StoreCreateSegment(segment)

SpecOrphans == Init /\ [][NextOrphans]_vars

\* C24: deleteAudioContent(c) takes the content record c out of the store and
\* nothing else: the highlights and transcript segments stay as they are, and
\* getHighlightsByAudioContent(c) and getTranscriptSegments(c) return
\* afterwards what they returned before
C24_DeleteLeavesChildren ==
    [][\A c \in RequestIds :
          ret'.op = "deleteAudioContent" /\ ret'.args.id = c
          => /\ audioContent' = Without(audioContent, c)
             /\ highlights' = highlights
             /\ transcriptSegments' = transcriptSegments
             /\ getHighlightsByAudioContent(c)' = getHighlightsByAudioContent(c)
             /\ getTranscriptSegments(c)' = getTranscriptSegments(c)]_vars

\* record 1 has just been deleted while a highlight and a transcript segment
\* name it: both are still listed
C24_Witness ==
    /\ ret.op = "deleteAudioContent"
    /\ ret.result = TRUE
    /\ ret.args.id \notin DOMAIN audioContent
    /\ getHighlightsByAudioContent(ret.args.id) # <<>>
    /\ getTranscriptSegments(ret.args.id) # <<>>

\* the transcript route lists two segments of a record that was deleted
C24_WitnessListed ==
    /\ ret.op = "getTranscriptSegments"
    /\ ret.args.id \notin DOMAIN audioContent
    /\ ret.args.id < nextId
    /\ Len(ret.result) = 2

\* ------------------------------------------------- transcripts and their segments
\* accepted uploads, their pipelines and clients reading the transcript route
NextTranscript ==
    \/ UploadAcceptNext
    \/ PipelineNext
    \/ \E id \in RequestIds : GetTranscript(id)

SpecTranscript == Init /\ [][NextTranscript]_vars

\* C25: once the pipeline has transcribed a record, the store holds transcript
\* segments for it: getTranscriptSegments of a completed record whose
\* transcript is not empty returns a list that is not empty and ascends by
\* sequenceNumber
C25_SegmentsAfterTranscription ==
    \A id \in DOMAIN audioContent :
        /\ audioContent[id].transcriptionStatus = "completed"
        /\ audioContent[id].transcriptionText \notin {Null, <<>>}
        => LET segments == getTranscriptSegments(id)
           IN /\ segments # <<>>
              /\ \A i, j \in 1..Len(segments) :
                    i < j => segments[i].sequenceNumber[2] <= segments[j].sequenceNumber[2]

\* C26: a record's transcriptionText agrees with its status: null while the
\* status is pending or processing, the text transcribeAudio returned when it
\* is completed, and "Error: " followed by one of the two messages when it is
\* error
C26_TextAgreesWithStatus ==
    \A id \in DOMAIN audioContent :
        LET content == audioContent[id]
        IN /\ content.transcriptionStatus \in {"pending", "processing"}
              => content.transcriptionText = Null
           /\ content.transcriptionStatus = "completed"
              => /\ pipeline[id].transcription.state = "returned"
                 /\ content.transcriptionText = pipeline[id].transcription.text
           /\ content.transcriptionStatus = "error"
              => content.transcriptionText \in
                    { ErrorPrefix \o TranscriptionFailedMessage,
                      ErrorPrefix \o QuotaExceededMessage }

\* of two records one is completed with the returned text "hello" and has had
\* its progress updated, the other is in error with the quota message
C26_Witness ==
    \E a, b \in DOMAIN audioContent :
        /\ audioContent[a].transcriptionStatus = "completed"
        /\ audioContent[a].transcriptionText = TranscriptHello
        /\ audioContent[a].progress = Num(7)
        /\ audioContent[b].transcriptionStatus = "error"
        /\ audioContent[b].transcriptionText = ErrorPrefix \o QuotaExceededMessage

\* a record still waiting for transcribeAudio: its text is null
C26_WitnessProcessing ==
    \E id \in DOMAIN audioContent :
        /\ pipeline[id].pc = "transcribing"
        /\ audioContent[id].transcriptionStatus = "processing"
        /\ audioContent[id].transcriptionText = Null

\* C27: a record whose aiSummary is not null has the status completed: no
\* summary is stored, by the pipeline or by POST /api/audio-content/:id/summary,
\* for a record whose status is pending, processing or error
C27_SummaryOnlyWhenCompleted ==
    \A id \in DOMAIN audioContent :
        audioContent[id].aiSummary # Null
        => audioContent[id].transcriptionStatus = "completed"

\* C28: every 206 response of GET /api/audio/:id on a file of N bytes names a
\* byte window inside the file, 0 <= start <= end <= N-1, with
\* Content-Length = end - start + 1 <= N, whatever the Range header was
C28_WindowInsideFile ==
    resp.route = AudioRoute /\ resp.status = 206
    => LET p == resp.req.params
           parts == RangeParts(p.range)
           start == RangeStart(parts)
           end == RangeEnd(parts, p.fileSize)
       IN /\ start # NaN
          /\ end # NaN
          /\ 0 <= start[2]
          /\ start[2] <= end[2]
          /\ end[2] <= p.fileSize - 1
          /\ resp.body.contentRange = ContentRange(start, end, p.fileSize)
          /\ resp.body.contentLength = Num(end[2] - start[2] + 1)
          /\ resp.body.contentLength[2] <= p.fileSize

\* C29: the progress of every content record is a non-negative integer, after
\* any sequence of PATCH /api/audio-content/:id/progress requests, also those
\* whose body has no progress
C29_ProgressIsNatural ==
    \A id \in DOMAIN audioContent :
        LET progress == audioContent[id].progress
        IN /\ Len(progress) = 2
           /\ progress[1] = "number"
           /\ progress[2] \in Nat

\* the (summary, keywords) pairs a generateSummary call can return
C30_CallResults ==
    { <<generateSummary(outcome).summary, generateSummary(outcome).keywords>> :
         outcome \in {o \in ProviderCompletions : ~generateSummary(o).threw} }

\* C30: a record's aiSummary and keywords are written together from the
\* result of one generateSummary call: every step that changes either sets
\* both to what a single call returned, so the stored pair is the initial
\* (null, []) or the pair of the call whose write came last, never the summary
\* of one call with the keywords of another
C30_SummaryAndKeywordsTogether ==
    /\ [](\A id \in DOMAIN audioContent :
             \/ /\ audioContent[id].aiSummary = Null
                /\ audioContent[id].keywords = <<>>
             \/ <<audioContent[id].aiSummary, audioContent[id].keywords>> \in C30_CallResults)
    /\ [][\A id \in DOMAIN audioContent :
             \/ audioContent'[id].aiSummary # audioContent[id].aiSummary
             \/ audioContent'[id].keywords # audioContent[id].keywords
             => <<audioContent'[id].aiSummary, audioContent'[id].keywords>>
                   \in C30_CallResults]_vars

\* the pipeline's call returned the summary "A talk" with a keyword, and the
\* summary request answered last stored its own call's pair, the placeholder
\* summary with no keywords
C30_Witness ==
    /\ resp.route = SummaryRoute
    /\ resp.status = 200
    /\ \E id \in DOMAIN audioContent :
          /\ resp.req.params.id = id
          /\ pipeline[id].summary.state = "returned"
          /\ pipeline[id].summary.summary = SummaryText
          /\ audioContent[id].aiSummary = SummaryPlaceholder
          /\ audioContent[id].keywords = <<>>

\* a summary request is suspended in generateSummary while the pipeline of the
\* same record waits for its own generateSummary call
C30_WitnessOverlap ==
    \E id \in DOMAIN audioContent :
        /\ pipeline[id].pc = "summarizing"
        /\ \E req \in BagToSet(summaryReqs) : req.id = id

====
